---- MODULE Spec2Model ----
(***************************************************************************)
(* A model of parseLab's specification/value model and of its message      *)
(* generator: DType, the Value hierarchy, ValueDef/FieldDef, the global    *)
(* dependency table and PacketGenerator.fuzz_msg_type.                     *)
(*                                                                         *)
(* Every random draw of the program (random.randint, random.randrange,     *)
(* random.random) is a nondeterministic choice over the values the draw    *)
(* can return.  A generation function is therefore modelled by the SET of  *)
(* its possible outcomes; an outcome carries the mutable program state it  *)
(* leaves behind (the dependency table, the is_list flag of every DType).  *)
(***************************************************************************)
EXTENDS Integers, Sequences, FiniteSets, TLC

VARIABLES dependency_values, dependency_call, dtype_is_list, calls, last,
          dt, rng, cmb, ser, tc, vch, vsg, vls, vfd

vars == <<dependency_values, dependency_call, dtype_is_list, calls, last,
          dt, rng, cmb, ser, tc, vch, vsg, vls, vfd>>

-----------------------------------------------------------------------------
(* Bounds of the model. *)

\* number of generation calls made on one loaded specification
MaxCalls == 2
\* largest bit width of the DTypes of the DType and Range specifications
MaxWidth == 3
\* largest declared count of the list DTypes of the DType specification
MaxListCount == 2
\* longest list of Ranges given to combine_values
MaxRanges == 3
\* largest bound of a Range given to combine_values
MaxBound == 4
\* longest list value given to serialize
MaxElements == 3
\* most message types of a specification loaded by TestcaseGenerator
MaxTypes == 2
MaxChoiceWidth == 2

-----------------------------------------------------------------------------
(* Names.  A name is a sequence of characters, so that str.lower() is a    *)
(* computation on the characters.                                          *)

Uppers == <<"A","B","C","D","E","F","G","H","I","J","K","L","M",
            "N","O","P","Q","R","S","T","U","V","W","X","Y","Z">>
Lowers == <<"a","b","c","d","e","f","g","h","i","j","k","l","m",
            "n","o","p","q","r","s","t","u","v","w","x","y","z">>

LowerChar(ch) ==
    IF \E i \in DOMAIN Uppers : Uppers[i] = ch
    THEN Lowers[CHOOSE i \in DOMAIN Uppers : Uppers[i] = ch]
    ELSE ch

Lower(name) == [i \in DOMAIN name |-> LowerChar(name[i])]

NoName == << >>

-----------------------------------------------------------------------------
(* gen_util.INVALID_TYPE *)

VALID_VALUE == "VALID_VALUE"
INVALID_VALUE == "INVALID_VALUE"
GREATER_THAN_BOUNDS == "GREATER_THAN_BOUNDS"
LESS_THAN_BOUNDS == "LESS_THAN_BOUNDS"
LOW_LIST_LENGTH == "LOW_LIST_LENGTH"
HIGH_LIST_LENGTH == "HIGH_LIST_LENGTH"

-----------------------------------------------------------------------------
(* Python's random module. *)

\* random.randint(a, b): a <= N <= b
randint(a, b) == a..b
\* a randrange that can draw its upper argument
randrange_closed(a, b) == a..b
\* random.randrange(a, b): a <= N < b
randrange(a, b) == a..(b - 1)

Max(a, b) == IF a >= b THEN a ELSE b

\* the lists of n elements drawn from S; range(n) is empty for n <= 0
ListsOf(S, n) == [1..Max(n, 0) -> S]

-----------------------------------------------------------------------------
(* gen_util.get_bounds *)

\* bounds one wider at the top
get_bounds_wide(size, signed) ==
    IF signed
    THEN << -(2^(size - 1)), 2^(size - 1) >>
    ELSE << 0, 2^size >>

get_bounds(size, signed) ==
    IF signed
    THEN << -(2^(size - 1)), 2^(size - 1) - 1 >>
    ELSE << 0, 2^size - 1 >>

-----------------------------------------------------------------------------
(* The Value hierarchy.  One record shape for the four variants.           *)

NoValue == [t |-> "none", lo |-> 0, hi |-> 0, items |-> << >>]
ValueSingle(v) == [t |-> "single", lo |-> v, hi |-> v, items |-> << >>]
ValueRange(a, b) == [t |-> "range", lo |-> a, hi |-> b, items |-> << >>]
ValueChoice(items) == [t |-> "choice", lo |-> 0, hi |-> 0, items |-> items]
ValueList(items) == [t |-> "list", lo |-> 0, hi |-> 0, items |-> items]

-----------------------------------------------------------------------------
(* FieldDef with its DType and ValueDef.  dependee is the DType attribute: *)
(* the field's own name when the field is a dependee, '' otherwise.        *)

FieldDef(name, size, signed, is_list, list_count, dependency, dependee, strict, value) ==
    [name |-> name, is_struct |-> FALSE, struct_ref |-> NoName,
     size |-> size, signed |-> signed, is_list |-> is_list,
     list_count |-> list_count, dependency |-> dependency,
     dependee |-> IF dependee THEN name ELSE NoName,
     strict |-> strict, value |-> value]

StructFieldDef(name, struct_ref, is_list, list_count, dependency, strict) ==
    [name |-> name, is_struct |-> TRUE, struct_ref |-> struct_ref,
     size |-> -1, signed |-> FALSE, is_list |-> is_list,
     list_count |-> list_count, dependency |-> dependency,
     dependee |-> NoName, strict |-> strict, value |-> NoValue]

Scalar(name, size, signed, dependee, strict, value) ==
    FieldDef(name, size, signed, FALSE, 0, NoName, dependee, strict, value)

has_type_dependency(f) == f.dependency # NoName

-----------------------------------------------------------------------------
(* ValueRange.combine_ranges / combine_values.  Ranges are objects: the    *)
(* heap maps an object id to its (min_bound, max_bound), and the list      *)
(* being combined is a sequence of ids, because combine_ranges assigns to  *)
(* the bounds of its arguments and the list keeps references to them.      *)

in_range(a, r) == r.lo <= a /\ a <= r.hi
under_range(a, r) == a < r.lo
over_range(a, r) == a > r.hi

\* the heap after `new_range.min_bound = r2.min_bound` (a in range, b over)
assign_min_bound(heap, i1, i2, new_range) ==
    IF in_range(heap[i1].lo, heap[i2]) /\ over_range(heap[i1].hi, heap[i2])
    THEN [heap EXCEPT ![new_range] = [lo |-> heap[i2].lo,
                                      hi |-> heap[i1].hi]]
    ELSE heap

\* the heap after `new_range.max_bound = r2.max_bound` (a under, b in range)
assign_max_bound(heap, i1, i2, new_range) ==
    IF in_range(heap[i1].hi, heap[i2])
    THEN [heap EXCEPT ![new_range] = [lo |-> heap[i1].lo,
                                      hi |-> heap[i2].hi]]
    ELSE heap

\* `if over_range(a, r2): return None`, then `return new_range`
return_unless_over(heap, i1, i2, new_range) ==
    IF over_range(heap[i1].lo, heap[i2])
    THEN [heap |-> heap, res |-> 0]
    ELSE [heap |-> heap, res |-> new_range]

\* `if under_range(a, r2)` onwards; the bounds are read again after the
\* assignment because new_range may be r1 or r2 itself
combine_ranges_under(heap, i1, i2, new_range) ==
    IF under_range(heap[i1].lo, heap[i2])
    THEN IF under_range(heap[i1].hi, heap[i2])
         THEN [heap |-> heap, res |-> 0]
         ELSE return_unless_over(assign_max_bound(heap, i1, i2, new_range),
                                 i1, i2, new_range)
    ELSE return_unless_over(heap, i1, i2, new_range)

\* `if in_range(a, r2)`: new_range is r2 when r1 lies inside r2
combine_ranges_in(heap, i1, i2, new_range) ==
    combine_ranges_under(assign_min_bound(heap, i1, i2, new_range),
                         i1, i2, new_range)

\* returns the heap after the call and the id of the returned range,
\* 0 standing for None
combine_ranges(heap, i1, i2) ==
    combine_ranges_in(heap, i1, i2,
        IF in_range(heap[i1].lo, heap[i2]) /\ in_range(heap[i1].hi, heap[i2])
        THEN i2 ELSE i1)

\* itertools.combinations(lst, 2), in its emission order
combinations2(lst) ==
    LET n == Len(lst)
        pairs == { p \in (1..n) \X (1..n) : p[1] < p[2] }
        before(p, q) == p[1] < q[1] \/ (p[1] = q[1] /\ p[2] < q[2])
        rank(p) == Cardinality({ q \in pairs : before(q, p) }) + 1
    IN  [k \in 1..Cardinality(pairs) |->
            LET p == CHOOSE q \in pairs : rank(q) = k
            IN  << lst[p[1]], lst[p[2]] >>]

\* list.remove(x): drops the first element that is x or equals x;
\* 0 when there is none (ValueError)
remove_index(heap, lst, x) ==
    LET hits == { k \in DOMAIN lst : lst[k] = x \/ heap[lst[k]] = heap[x] }
    IN  IF hits = {} THEN 0
        ELSE CHOOSE k \in hits : \A j \in hits : k <= j

drop_at(lst, k) ==
    [j \in 1..(Len(lst) - 1) |-> IF j < k THEN lst[j] ELSE lst[j + 1]]

\* combined_ranges.remove(rc[0]); combined_ranges.remove(rc[1]) on the
\* list lst, k1 being the index the first remove found
remove_second(heap, lst, k1, x2) ==
    IF k1 = 0 THEN [lst |-> lst, raised |-> TRUE]
    ELSE [lst |-> IF remove_index(heap, drop_at(lst, k1), x2) = 0
                  THEN drop_at(lst, k1)
                  ELSE drop_at(drop_at(lst, k1),
                               remove_index(heap, drop_at(lst, k1), x2)),
          raised |-> remove_index(heap, drop_at(lst, k1), x2) = 0]

\* append(cr); remove(rc[0]); remove(rc[1])
replace_pair(heap, lst, rc) ==
    remove_second(heap, lst, remove_index(heap, lst, rc[1]), rc[2])

\* the state after one combination rc whose combine_ranges returned cr
combine_one(st, rc, cr) ==
    IF cr.res = 0 THEN [st EXCEPT !.heap = cr.heap]
    ELSE [heap |-> cr.heap,
          lst |-> replace_pair(cr.heap, Append(st.lst, cr.res), rc).lst,
          raised |-> replace_pair(cr.heap, Append(st.lst, cr.res), rc).raised]

\* a pass that ends at the first pair it combines
RECURSIVE combine_pass_first(_, _, _)
combine_pass_first(st, combos, k) ==
    IF k > Len(combos) \/ st.raised THEN st
    ELSE IF combine_ranges(st.heap, combos[k][1], combos[k][2]).res # 0
    THEN combine_one(st, combos[k],
             combine_ranges(st.heap, combos[k][1], combos[k][2]))
    ELSE combine_pass_first(
             combine_one(st, combos[k],
                 combine_ranges(st.heap, combos[k][1], combos[k][2])),
             combos, k + 1)

\* the body of `for rc in range_combinations`, from combination k on
RECURSIVE combine_pass(_, _, _)
combine_pass(st, combos, k) ==
    IF k > Len(combos) \/ st.raised THEN st
    ELSE combine_pass(
             combine_one(st, combos[k],
                 combine_ranges(st.heap, combos[k][1], combos[k][2])),
             combos, k + 1)

RECURSIVE combine_loop(_, _)

\* prev_len = len(combined_ranges), and the test of the while loop again
store_prev_len(st) == combine_loop(st, Len(st.lst))

\* while prev_len != len(combined_ranges): ... prev_len = len(...)
combine_loop(st, prev_len) ==
    IF st.raised \/ prev_len = Len(st.lst) THEN st
    ELSE store_prev_len(combine_pass(st, combinations2(st.lst), 1))

\* what combine_values returns from the final state st: ranges is
\* set(combined_ranges) by value, contents the caller's list object after
\* the call (combined_ranges aliases val_list)
combine_result(st) ==
    [raised |-> st.raised,
     ranges |-> { st.heap[st.lst[k]] : k \in DOMAIN st.lst },
     contents |-> [k \in DOMAIN st.lst |-> st.heap[st.lst[k]]]]

\* combine_values(val_list): val_list is a sequence of [lo, hi] records,
\* one object each
combine_values(val_list) ==
    combine_result(combine_loop([heap |-> val_list,
                                 lst |-> [i \in DOMAIN val_list |-> i],
                                 raised |-> FALSE], -1))

-----------------------------------------------------------------------------
(* GeneratedValue.  value is the sequence of the generated numbers;        *)
(* is_list tells a Python list from a Python int (a one-number sequence).  *)
(* inner is "" unless value is itself a GeneratedValue object, whose       *)
(* value_type it then holds (its numbers are in value).                    *)

GeneratedValue(value_type, value, is_list) ==
    [value_type |-> value_type, value |-> value, is_list |-> is_list,
     field |-> NoName, inner |-> ""]

set_field(gv, f) == [gv EXCEPT !.field = f.name]

NoGV == GeneratedValue("", << >>, FALSE)

-----------------------------------------------------------------------------
(* The mutable program state a generation function runs in:                *)
(*   dv   gen_util.dependency_values                                       *)
(*   il   DType.is_list of every field's DType, by field name              *)
(*   err  the exception that is propagating, "" when none                  *)
(* and the history kept to state the properties:                           *)
(*   dc   the generation call that wrote each entry of dv                  *)
(*   ev   the list-length lookups of the current call, in order            *)
(*   call the number of the current call                                   *)
(*   inv  TRUE while the corruption point is being generated               *)

(* A generation function returns the set of its outcomes; an outcome is   *)
(* the context it leaves and what it returns: one GeneratedValue (gv), or  *)
(* a flat list of them (vals), with the invalid_info of a corrupted struct *)

\* invalid_info: '' | '<field> - <classification>' | an INVALID_TYPE member
NoInfo == [form |-> "empty", field |-> NoName, value_type |-> ""]
TextInfo(name, vt) == [form |-> "text", field |-> name, value_type |-> vt]
EnumInfo(vt) == [form |-> "enum", field |-> NoName, value_type |-> vt]

Ret(c, gv) == [c |-> c, gv |-> gv, vals |-> << >>, info |-> NoInfo]

Raise(c, e) == Ret([c EXCEPT !.err = e], NoGV)

\* an exception ends every later step of the call
Then(S, F(_)) == UNION { IF r.c.err # "" THEN {r} ELSE F(r) : r \in S }

\* gen_util.dependency_values[key] = value, the Python object as it is:
\* its numbers and whether it is a list
Publish(c, key, value, is_list) ==
    [c EXCEPT !.dv = (key :> [value |-> value, is_list |-> is_list]) @@ c.dv,
              !.dc = (key :> c.call) @@ c.dc]

\* the read of gen_util.dependency_values[key] by field f, which then
\* generated n elements or struct instances
Lookup(c, f, key, n) ==
    [c EXCEPT !.ev = Append(c.ev, [op |-> "lookup", key |-> key,
                                   val |-> c.dv[key].value,
                                   call |-> c.dc[key],
                                   field |-> f.name, n |-> n,
                                   inv |-> c.inv])]

\* int(gen_util.dependency_values[key]) raises for a list
int_raises(c, key) == c.dv[key].is_list
\* a conversion that is one too many
int_of_next(c, key) == c.dv[key].value[1] + 1
int_of(c, key) == c.dv[key].value[1]

set_is_list(c, f, b) == [c EXCEPT !.il = [c.il EXCEPT ![f.name] = b]]

-----------------------------------------------------------------------------
(* DType.generate_valid_value *)

DType_generate_valid_value(f, c) ==
    LET key == Lower(f.dependency)
        isl == c.il[f.name]
    IN  IF has_type_dependency(f) /\ key \notin DOMAIN c.dv
        THEN {Raise(c, "unresolved dependency")}
        ELSE IF has_type_dependency(f) /\ int_raises(c, key)
        THEN {Raise(c, "ValueError")}
        ELSE
        LET list_len == IF isl /\ ~has_type_dependency(f) THEN f.list_count
                        ELSE IF has_type_dependency(f) THEN int_of(c, key)
                        ELSE 0
            b == get_bounds(f.size, f.signed)
        IN  IF f.is_struct
            THEN {Raise(c, "Exception")}
            ELSE IF isl
            THEN { Ret(IF has_type_dependency(f)
                       THEN Lookup(c, f, key, Len(vals)) ELSE c,
                       GeneratedValue(VALID_VALUE, vals, TRUE)) :
                   vals \in ListsOf(randint(b[1], b[2]), list_len) }
            ELSE { Ret(LET c1 == IF has_type_dependency(f)
                                 THEN Lookup(c, f, key, 1) ELSE c
                       IN  IF f.dependee # NoName
                           THEN Publish(c1, Lower(f.dependee),
                                        << ret_val >>, FALSE)
                           ELSE c1,
                       GeneratedValue(VALID_VALUE, << ret_val >>, FALSE)) :
                   ret_val \in randint(b[1], b[2]) }

(* DType.generate_invalid_value, for a DType that is not a struct *)
DType_generate_invalid_value(f, c) ==
    IF ~c.il[f.name] THEN {Raise(c, "NotImplementedError")}
    ELSE
    LET add_one(r) ==
            \* force add one element of the list's data type
            LET step(r2) ==
                    { Ret(set_is_list(r2.c, f, TRUE),
                          GeneratedValue(HIGH_LIST_LENGTH,
                                         r.gv.value \o r2.gv.value, TRUE)) }
            IN  Then(DType_generate_valid_value(
                         f, set_is_list(r.c, f, FALSE)), step)
        \* generated_list = generated_list[:-1]; ret_val = generated_list[:-1]
        remove_one(r) ==
            LET generated_list == SubSeq(r.gv.value, 1, Len(r.gv.value) - 1)
            IN  { Ret(r.c, GeneratedValue(LOW_LIST_LENGTH,
                         SubSeq(generated_list, 1, Len(generated_list) - 1),
                         TRUE)) }
        pick(r) ==
            IF Len(r.gv.value) <= 1 THEN add_one(r)
            ELSE add_one(r) \cup remove_one(r)
    IN  Then(DType_generate_valid_value(f, c), pick)

-----------------------------------------------------------------------------
(* The loaded specification (ProtocolSpecData): the struct registry and    *)
(* the message types.  Every field has a DType of its own; the members of  *)
(* a struct are shared by all the fields that reference the struct.        *)

n_T == <<"T">>
n_S == <<"S">>
n_W == <<"W">>

\* T: a leaf struct with one invalidatable and one strict member
T_members ==
    << Scalar(<<"t","v">>, 2, FALSE, FALSE, FALSE, ValueRange(1, 3)),
       Scalar(<<"t","k">>, 1, FALSE, FALSE, TRUE, ValueSingle(1)) >>

\* S: a scalar member, then a strict fixed-count list of T
S_members ==
    << Scalar(<<"s","a">>, 2, FALSE, FALSE, FALSE, ValueRange(1, 2)),
       StructFieldDef(<<"s","t">>, n_T, TRUE, 2, NoName, TRUE) >>

\* W: a fixed-count list of T as only invalidatable member
W_members ==
    << StructFieldDef(<<"w","t">>, n_T, TRUE, 1, NoName, FALSE),
       Scalar(<<"w","b">>, 1, FALSE, FALSE, TRUE, ValueSingle(0)) >>

struct_list == (n_T :> T_members) @@ (n_S :> S_members) @@ (n_W :> W_members)

message_types ==
    << [name |-> <<"S","c","a","l","a","r","s">>, fields |->
          << Scalar(<<"a">>, 2, FALSE, FALSE, FALSE, ValueSingle(1)),
             Scalar(<<"b">>, 2, TRUE, FALSE, FALSE, ValueRange(-2, 0)),
             Scalar(<<"c">>, 2, FALSE, FALSE, FALSE, NoValue) >>],
       [name |-> <<"S","t","r","i","c","t">>, fields |->
          << Scalar(<<"k">>, 2, FALSE, FALSE, TRUE, ValueSingle(3)) >>],
       [name |-> <<"F","u","l","l">>, fields |->
          << Scalar(<<"r">>, 2, FALSE, FALSE, FALSE, ValueRange(0, 3)),
             Scalar(<<"q">>, 1, TRUE, FALSE, FALSE, NoValue) >>],
       [name |-> <<"D","e","p">>, fields |->
          << Scalar(<<"L","e","n">>, 2, FALSE, TRUE, FALSE, ValueRange(0, 2)),
             FieldDef(<<"d","a","t","a">>, 1, FALSE, TRUE, 0,
                      <<"l","e","n">>, FALSE, FALSE, NoValue) >>],
       [name |-> <<"N","o","D","e","p">>, fields |->
          << FieldDef(<<"b","o","d","y">>, 1, FALSE, TRUE, 0,
                      <<"L","E","N">>, FALSE, TRUE, NoValue) >>],
       [name |-> <<"S","i","g","n","e","d">>, fields |->
          << Scalar(<<"N">>, 2, TRUE, TRUE, TRUE, NoValue),
             FieldDef(<<"x","s">>, 1, FALSE, TRUE, 0,
                      <<"n">>, FALSE, TRUE, NoValue) >>],
       [name |-> <<"H","d","r">>, fields |->
          << StructFieldDef(<<"h","d","r">>, n_S, FALSE, 0, NoName, FALSE) >>],
       [name |-> <<"I","t","e","m","s">>, fields |->
          << StructFieldDef(<<"i","t","e","m","s">>, n_T, TRUE, 2, NoName,
                            FALSE) >>],
       [name |-> <<"W","r","a","p">>, fields |->
          << StructFieldDef(<<"w","r","a","p">>, n_W, FALSE, 0, NoName,
                            FALSE) >>],
       [name |-> <<"R","e","p">>, fields |->
          << Scalar(<<"N","u","m">>, 2, FALSE, TRUE, FALSE, ValueSingle(1)),
             StructFieldDef(<<"t","s">>, n_T, TRUE, 0, <<"n","u","m">>,
                            TRUE) >>],
       [name |-> <<"L","i","s","t","s">>, fields |->
          << FieldDef(<<"l">>, 2, FALSE, TRUE, 2, NoName, FALSE, FALSE,
                      ValueList(<< ValueSingle(1), ValueRange(1, 3) >>)),
             FieldDef(<<"u">>, 1, FALSE, TRUE, 2, NoName, FALSE, FALSE,
                      NoValue) >>],
       [name |-> <<"C","h","o","i","c","e","s">>, fields |->
          << Scalar(<<"c","h">>, 2, FALSE, FALSE, FALSE,
                    ValueChoice(<< ValueSingle(0), ValueSingle(2) >>)),
             Scalar(<<"c","r">>, 3, FALSE, FALSE, FALSE,
                    ValueChoice(<< ValueRange(0, 1), ValueRange(4, 6) >>)) >>]
    >>

\* every FieldDef of the specification, nested members included
AllFields ==
    UNION { { message_types[m].fields[i] :
              i \in DOMAIN message_types[m].fields } :
            m \in DOMAIN message_types }
    \cup UNION { { struct_list[s][i] : i \in DOMAIN struct_list[s] } :
                 s \in DOMAIN struct_list }

FieldNames == { f.name : f \in AllFields }

FieldNamed(name) == CHOOSE f \in AllFields : f.name = name

-----------------------------------------------------------------------------
(* Value.generate_valid_value of the four variants *)

\* contents[random.randrange(len(contents)) - 1]: index -1 is the last one
choice_options(contents) ==
    { IF r - 1 = -1 THEN contents[Len(contents)] ELSE contents[r] :
      r \in randrange(0, Len(contents)) }

RECURSIVE Value_generate_valid_value(_, _, _)
RECURSIVE ValueList_valid_elements(_, _, _, _)

Value_generate_valid_value(val, f, c) ==
    CASE val.t = "single" ->
            { Ret(c, GeneratedValue(VALID_VALUE, << val.lo >>, FALSE)) }
      [] val.t = "range" ->
            IF val.lo > val.hi \/ randrange(val.lo, val.hi) = {}
            THEN {Raise(c, "ValueError")}
            ELSE { Ret(c, GeneratedValue(VALID_VALUE, << ret_val >>, FALSE)) :
                   ret_val \in randrange(val.lo, val.hi) }
      [] val.t = "choice" ->
            UNION { Value_generate_valid_value(opt, f, c) :
                    opt \in choice_options(val.items) }
      [] val.t = "list" ->
            ValueList_valid_elements(val.items, 1, f,
                { Ret(c, GeneratedValue(VALID_VALUE, << >>, TRUE)) })

\* for pdef in self.contents: values.append(pdef.generate_valid_value().value)
ValueList_valid_elements(contents, k, f, acc) ==
    IF k > Len(contents) THEN acc
    ELSE LET one(r) ==
                 LET app(r2) ==
                         { Ret(r2.c, GeneratedValue(VALID_VALUE,
                               r.gv.value \o r2.gv.value, TRUE)) }
                 IN  Then(Value_generate_valid_value(contents[k], f, r.c),
                          app)
         IN  ValueList_valid_elements(contents, k + 1, f, Then(acc, one))

-----------------------------------------------------------------------------
(* Value.can_generate_invalid_instance *)

RECURSIVE Value_can_generate_invalid_instance(_, _)
Value_can_generate_invalid_instance(val, f) ==
    LET bounds == get_bounds(f.size, f.signed)
    IN  CASE val.t = "single" -> TRUE
          [] val.t = "list" -> TRUE
          [] val.t = "range" ->
                ~(val.lo = bounds[1] /\ val.hi = bounds[2])
          [] val.t = "choice" ->
                CASE val.items[1].t = "single" ->
                        LET set_size == bounds[2] - bounds[1]
                        IN  set_size # Len(val.items)
                  [] val.items[1].t = "range" ->
                        LET combined_ranges == combine_values(
                                [i \in DOMAIN val.items |->
                                   [lo |-> val.items[i].lo,
                                    hi |-> val.items[i].hi]]).ranges
                        IN  ~(Cardinality(combined_ranges) = 1
                              /\ \A r \in combined_ranges :
                                    r.lo = bounds[1] /\ r.hi = bounds[2])
                  [] OTHER ->
                        \A i \in DOMAIN val.items :
                            Value_can_generate_invalid_instance(
                                val.items[i], f)

-----------------------------------------------------------------------------
(* Value.generate_invalid_value *)

\* while invalid_data == self.value and cnt < 10
resample_limit == 10

RECURSIVE ValueSingle_resample(_, _, _, _)
ValueSingle_resample(r, cnt, val, f) ==
    IF r.c.err = "" /\ r.gv.value = << val.lo >> /\ cnt < resample_limit
    THEN UNION { ValueSingle_resample(r2, cnt + 1, val, f) :
                 r2 \in DType_generate_valid_value(f, r.c) }
    ELSE {r}

ValueSingle_generate_invalid_value(val, f, c) ==
    LET finish(r) ==
            { Ret(set_is_list(r.c, f, TRUE),
                  GeneratedValue(IF r.gv.value = << val.lo >>
                                 THEN VALID_VALUE ELSE INVALID_VALUE,
                                 r.gv.value, FALSE)) }
        first == DType_generate_valid_value(f, set_is_list(c, f, FALSE))
    IN  Then(UNION { ValueSingle_resample(r, 0, val, f) : r \in first },
             finish)

\* a generate_invalid_value that steps past the bound that coincides with
\* the type's bound
ValueRange_generate_invalid_value_swapped(val, f, c) ==
    LET b == get_bounds(f.size, f.signed)
        set_above_range ==
            Ret(c, GeneratedValue(GREATER_THAN_BOUNDS, << val.hi + 1 >>,
                                  FALSE))
        set_below_range ==
            Ret(c, GeneratedValue(LESS_THAN_BOUNDS, << val.lo - 1 >>, FALSE))
    IN  IF val.lo = b[1] THEN {set_below_range}
        ELSE IF val.hi = b[2] THEN {set_above_range}
        ELSE {set_above_range, set_below_range}

ValueRange_generate_invalid_value(val, f, c) ==
    LET b == get_bounds(f.size, f.signed)
        set_above_range ==
            Ret(c, GeneratedValue(GREATER_THAN_BOUNDS, << val.hi + 1 >>,
                                  FALSE))
        set_below_range ==
            Ret(c, GeneratedValue(LESS_THAN_BOUNDS, << val.lo - 1 >>, FALSE))
    IN  IF val.lo = b[1] THEN {set_above_range}
        ELSE IF val.hi = b[2] THEN {set_below_range}
        ELSE {set_above_range, set_below_range}

sign(num) == IF num >= 0 THEN 1 ELSE -1

abs(num) == IF num >= 0 THEN num ELSE -num

\* while base + offset in values_list
RECURSIVE outward_search(_, _, _)
outward_search(base, offset, values_list) ==
    IF base + offset \in values_list
    THEN outward_search(base, (abs(offset) + 1) * sign(offset), values_list)
    ELSE base + offset

ValueSingle_generate_number_not_in_set(contents, f, c) ==
    LET dtype_bounds == get_bounds(f.size, f.signed)
        values_list == { contents[i].lo : i \in DOMAIN contents }
    IN  IF Cardinality(values_list) = dtype_bounds[2] - dtype_bounds[1]
        THEN {Raise(c, "Exception")}
        ELSE { Ret(c, GeneratedValue(INVALID_VALUE,
                      << outward_search(base, 0, values_list) >>, FALSE)) :
               base \in randint(dtype_bounds[1], dtype_bounds[2]) }

\* sorted(list(range_set)): the orders that ValueRange.__lt__ allows
sorted_ranges(range_set) ==
    { sq \in [1..Cardinality(range_set) -> range_set] :
        /\ \A r \in range_set : \E i \in DOMAIN sq : sq[i] = r
        /\ \A i \in DOMAIN sq : \A j \in DOMAIN sq :
              i < j => ~(sq[j].lo < sq[i].lo) }

ValueRange_generate_number_not_in_set(contents, f, c) ==
    LET range_set == { [lo |-> contents[i].lo, hi |-> contents[i].hi] :
                       i \in DOMAIN contents }
    IN  IF Cardinality(range_set) < 2 THEN {Raise(c, "Exception")}
        ELSE UNION { UNION {
                 LET _min == range_list[low_idx + 1].hi + 1
                     _max == range_list[low_idx + 2].lo - 1
                 IN  IF randint(_min, _max) = {}
                     THEN {Raise(c, "ValueError")}
                     ELSE { Ret(c, GeneratedValue(INVALID_VALUE, << v >>,
                                                  FALSE)) :
                            v \in randint(_min, _max) } :
                 low_idx \in randint(0, Cardinality(range_set) - 2) } :
               range_list \in sorted_ranges(range_set) }

RECURSIVE Value_generate_invalid_value(_, _, _)
Value_generate_invalid_value(val, f, c) ==
    CASE val.t = "single" -> ValueSingle_generate_invalid_value(val, f, c)
      [] val.t = "range" -> ValueRange_generate_invalid_value(val, f, c)
      [] val.t = "choice" ->
            CASE val.items[1].t = "single" ->
                    ValueSingle_generate_number_not_in_set(val.items, f, c)
              [] val.items[1].t = "range" ->
                    ValueRange_generate_number_not_in_set(val.items, f, c)
              [] val.items[1].t = "list" ->
                    \* the chosen list's GeneratedValue becomes the value of
                    \* a new GeneratedValue
                    LET wrap(r) ==
                            { Ret(r.c, [r.gv EXCEPT
                                          !.value_type = INVALID_VALUE,
                                          !.inner = r.gv.value_type]) }
                    IN  UNION { Then(Value_generate_invalid_value(
                                         val.items[i], f, c), wrap) :
                                i \in { k + 1 :
                                   k \in randint(0, Len(val.items) - 1) } }
              [] OTHER -> {Raise(c, "Exception")}
      [] val.t = "list" ->
            LET invalidable == { i \in DOMAIN val.items :
                    Value_can_generate_invalid_instance(val.items[i], f) }
                \* ATTEMPT 1: invalidate one element and return it
                attempt1 == UNION { Value_generate_invalid_value(
                                        val.items[i], f, c) :
                                    i \in invalidable }
                \* ATTEMPT 2: make the number of items wrong
                add_one(r) ==
                    LET step(r2) ==
                            { Ret(set_is_list(r2.c, f, TRUE),
                                  GeneratedValue(HIGH_LIST_LENGTH,
                                      r.gv.value \o r2.gv.value, TRUE)) }
                    IN  Then(DType_generate_valid_value(
                                 f, set_is_list(r.c, f, FALSE)), step)
                remove_one(r) ==
                    { Ret(r.c, GeneratedValue(LOW_LIST_LENGTH,
                          SubSeq(r.gv.value, 1, Len(r.gv.value) - 1),
                          TRUE)) }
                pick(r) ==
                    IF Len(val.items) < 1 THEN add_one(r)
                    ELSE add_one(r) \cup remove_one(r)
            IN  IF invalidable # {} THEN attempt1
                ELSE Then(ValueList_valid_elements(val.items, 1, f,
                         { Ret(c, GeneratedValue(VALID_VALUE, << >>, TRUE)) }),
                          pick)

-----------------------------------------------------------------------------
(* ValueDef and FieldDef *)

\* if self.dtype.dependee != '': dependency_values[...] = generated_value.value
ValueDef_publish(f, r) ==
    IF f.dependee # NoName
    THEN { Ret(Publish(r.c, Lower(f.dependee), r.gv.value,
                       r.gv.is_list \/ r.gv.inner # ""), r.gv) }
    ELSE {r}

\* a bare except turns every exception of the Value into Exception
ValueDef_wrap(S) ==
    { IF r.c.err # "" THEN Raise(r.c, "Exception") ELSE r : r \in S }

ValueDef_generate_valid_value(f, c) ==
    LET publish(r) == ValueDef_publish(f, r)
    IN  Then(ValueDef_wrap(IF f.value.t # "none"
                           THEN Value_generate_valid_value(f.value, f, c)
                           ELSE DType_generate_valid_value(f, c)),
             publish)

ValueDef_generate_invalid_value(f, c) ==
    LET publish(r) == ValueDef_publish(f, r)
    IN  Then(ValueDef_wrap(IF f.value.t # "none"
                           THEN Value_generate_invalid_value(f.value, f, c)
                           ELSE DType_generate_invalid_value(f, c)),
             publish)

ValueDef_can_generate_invalid_instance(f) ==
    IF f.value.t = "none" THEN FALSE
    ELSE Value_can_generate_invalid_instance(f.value, f)

RECURSIVE FieldDef_can_generate_invalid_instance(_, _)
RECURSIVE DType_can_generate_invalid_instance(_, _)

\* il: the current is_list flags
DType_can_generate_invalid_instance(f, il) ==
    IF il[f.name] THEN TRUE
    ELSE IF f.is_struct
    THEN \E i \in DOMAIN struct_list[f.struct_ref] :
            FieldDef_can_generate_invalid_instance(
                struct_list[f.struct_ref][i], il)
    ELSE FALSE

FieldDef_can_generate_invalid_instance(f, il) ==
    IF f.strict THEN FALSE
    ELSE IF f.value.t = "none"
    THEN DType_can_generate_invalid_instance(f, il)
    ELSE ValueDef_can_generate_invalid_instance(f)

FieldDef_generate_valid_value(f, c) ==
    LET tag(r) == { Ret(r.c, set_field(r.gv, f)) }
    IN  Then(IF f.value.t # "none"
             THEN ValueDef_generate_valid_value(f, c)
             ELSE DType_generate_valid_value(f, c),
             tag)

FieldDef_generate_invalid_value(f, c) ==
    IF f.value.t # "none" THEN ValueDef_generate_invalid_value(f, c)
    ELSE IF DType_can_generate_invalid_instance(f, c.il)
    THEN DType_generate_invalid_value(f, c)
    ELSE DType_generate_valid_value(f, c)

-----------------------------------------------------------------------------
(* Struct.generate_valid_values.  A struct generator returns the context   *)
(* and the flat list of GeneratedValues it produced.                       *)

RetL(c, vals) == [c |-> c, gv |-> NoGV, vals |-> vals, info |-> NoInfo]

RetI(c, vals, info) == [c |-> c, gv |-> NoGV, vals |-> vals, info |-> info]

RaiseL(c, e) == Raise(c, e)

RECURSIVE Struct_generate_valid_values(_, _)
RECURSIVE Struct_members_valid(_, _, _)
RECURSIVE repeat_struct(_, _, _)

\* for _ in range(n): values.extend(struct.generate_valid_values())
repeat_struct(sname, n, acc) ==
    IF n <= 0 THEN acc
    ELSE LET one(r) ==
                 LET ext(r2) == { RetL(r2.c, r.vals \o r2.vals) }
                 IN  Then(Struct_generate_valid_values(sname, r.c), ext)
         IN  repeat_struct(sname, n - 1, Then(acc, one))

Struct_member_valid(member, r) ==
    LET key == Lower(member.dependency)
    IN  IF member.is_struct
        THEN IF r.c.il[member.name] /\ ~has_type_dependency(member)
             THEN repeat_struct(member.struct_ref, member.list_count, {r})
             ELSE IF has_type_dependency(member)
             THEN IF key \notin DOMAIN r.c.dv
                  THEN {RaiseL(r.c, "unresolved dependency")}
                  ELSE IF int_raises(r.c, key)
                  THEN {RaiseL(r.c, "ValueError")}
                  ELSE repeat_struct(member.struct_ref, int_of(r.c, key),
                           { RetL(Lookup(r.c, member, key,
                                         Max(int_of(r.c, key), 0)),
                                  r.vals) })
             ELSE repeat_struct(member.struct_ref, 1, {r})
        ELSE LET app(r2) == { RetL(r2.c, Append(r.vals, r2.gv)) }
             IN  Then(FieldDef_generate_valid_value(member, r.c), app)

Struct_members_valid(members, k, acc) ==
    IF k > Len(members) THEN acc
    ELSE LET one(r) == Struct_member_valid(members[k], r)
         IN  Struct_members_valid(members, k + 1, Then(acc, one))

Struct_generate_valid_values(sname, c) ==
    Struct_members_valid(struct_list[sname], 1, { RetL(c, << >>) })

-----------------------------------------------------------------------------
(* PacketGenerator.fuzz_msg_type and its local functions.  `field` is the  *)
(* variable of fuzz_msg_type's own loop over msg_type.fields, which the    *)
(* local functions read as a free variable.                                *)


set_inv(c, b) == [c EXCEPT !.inv = b]

\* a valid-field generation that corrupts the field as well
generate_valid_field_corrupting(f, c) ==
    LET tag(r) == { Ret(r.c, set_field(r.gv, f)) }
    IN  Then(FieldDef_generate_invalid_value(f, c), tag)

generate_valid_field(f, c) ==
    LET tag(r) == { Ret(r.c, set_field(r.gv, f)) }
    IN  Then(FieldDef_generate_valid_value(f, c), tag)

generate_invalid_field(f, c) ==
    LET tag(r) == { Ret(set_inv(r.c, FALSE), set_field(r.gv, f)) }
    IN  Then(FieldDef_generate_invalid_value(f, set_inv(c, TRUE)), tag)

\* list_len of generate_valid_struct / generate_invalid_struct for a list
\* struct field, and the exception its computation raises ("" when none)
struct_list_len(struct_field, field, c) ==
    IF ~has_type_dependency(struct_field)
    THEN field.list_count
    ELSE int_of(c, Lower(struct_field.dependency))

struct_list_len_error(struct_field, c) ==
    IF ~has_type_dependency(struct_field) THEN ""
    ELSE IF Lower(struct_field.dependency) \notin DOMAIN c.dv
    THEN "unresolved dependency"
    ELSE IF int_raises(c, Lower(struct_field.dependency)) THEN "ValueError"
    ELSE ""

log_struct_lookup(struct_field, c, n) ==
    IF has_type_dependency(struct_field)
    THEN Lookup(c, struct_field, Lower(struct_field.dependency), Max(n, 0))
    ELSE c

generate_valid_struct(struct_field, field, c) ==
    IF c.il[struct_field.name]
    THEN IF struct_list_len_error(struct_field, c) # ""
         THEN {RaiseL(c, struct_list_len_error(struct_field, c))}
         ELSE LET list_len == struct_list_len(struct_field, field, c)
              IN  repeat_struct(struct_field.struct_ref, list_len,
                      { RetL(log_struct_lookup(struct_field, c, list_len),
                             << >>) })
    ELSE repeat_struct(struct_field.struct_ref, 1, { RetL(c, << >>) })

\* for i in range(list_len): is_list = False; generate_valid_struct;
\* is_list = True
RECURSIVE invalid_struct_repeat(_, _, _, _)
invalid_struct_repeat(struct_field, field, n, acc) ==
    IF n <= 0 THEN acc
    ELSE LET one(r) ==
                 LET ext(r2) ==
                         { RetL(set_is_list(r2.c, struct_field, TRUE),
                                r.vals \o r2.vals) }
                 IN  Then(generate_valid_struct(struct_field, field,
                              set_is_list(r.c, struct_field, FALSE)), ext)
         IN  invalid_struct_repeat(struct_field, field, n - 1, Then(acc, one))

RECURSIVE generate_invalid_struct(_, _, _)
RECURSIVE invalid_struct_members(_, _, _, _, _)

generate_invalid_struct(struct_field, field, c) ==
    LET members == struct_list[struct_field.struct_ref]
    IN
    IF c.il[struct_field.name]
    THEN IF struct_list_len_error(struct_field, c) # ""
         THEN {Raise(c, struct_list_len_error(struct_field, c))}
         ELSE LET list_len == struct_list_len(struct_field, field, c) + 1
                  c1 == set_inv(
                           log_struct_lookup(struct_field, set_inv(c, TRUE),
                                             list_len), FALSE)
                  info == IF list_len > 0 THEN EnumInfo(HIGH_LIST_LENGTH)
                          ELSE EnumInfo(VALID_VALUE)
              IN  { RetI(r.c, r.vals, info) :
                    r \in invalid_struct_repeat(struct_field, field, list_len,
                                                { RetL(c1, << >>) }) }
    ELSE LET corruptable_members ==
                 { i \in DOMAIN members :
                     FieldDef_can_generate_invalid_instance(members[i], c.il) }
         IN  IF corruptable_members = {}
             \* corrupted_member is read before it is assigned
             THEN {Raise(c, "UnboundLocalError")}
             ELSE UNION { invalid_struct_members(
                              members, 1, corrupted_member_index, field,
                              { RetI(c, << >>, EnumInfo(VALID_VALUE)) }) :
                          corrupted_member_index \in corruptable_members }

invalid_struct_members(members, k, corrupted_member_index, field, acc) ==
    IF k > Len(members) THEN acc
    ELSE
    LET member == members[k]
        one(r) ==
            IF member.is_struct
            THEN IF k = corrupted_member_index
                 THEN LET ext(r2) ==
                              { RetI(r2.c, r.vals \o r2.vals, r2.info) }
                      IN  Then(generate_invalid_struct(member, field, r.c),
                               ext)
                 ELSE LET ext(r2) ==
                              { RetI(r2.c, r.vals \o r2.vals, r.info) }
                      IN  Then(generate_valid_struct(member, field, r.c),
                               ext)
            ELSE IF k = corrupted_member_index
                 THEN LET app(r2) ==
                              { RetI(r2.c, Append(r.vals, r2.gv),
                                     TextInfo(member.name,
                                              r2.gv.value_type)) }
                      IN  Then(generate_invalid_field(member, r.c), app)
                 ELSE LET app(r2) ==
                              { RetI(r2.c, Append(r.vals, r2.gv), r.info) }
                      IN  Then(generate_valid_field(member, r.c), app)
    IN  invalid_struct_members(members, k + 1, corrupted_member_index, field,
                               Then(acc, one))

\* struct.pack(fmt, v) raises struct.error when v does not fit the format
\* that create_struct_format picks for the width ('?' takes any number)
pack_raises(v, size, signed, in_list) ==
    LET bits == IF size <= 8 THEN 8 ELSE IF size <= 16 THEN 16
                ELSE IF size <= 32 THEN 32 ELSE 64
        b == IF in_list /\ signed THEN get_bounds(32, TRUE)
             ELSE get_bounds(bits, signed)
    IN  IF size = 1 /\ ~(in_list /\ signed) THEN FALSE
        ELSE v < b[1] \/ v > b[2]

\* whether gen_util.serialize(vals) raises
serialize_raises(vals) ==
    \E i \in DOMAIN vals :
        LET f == FieldNamed(vals[i].field)
        IN  \/ vals[i].inner # ""
            \/ \E j \in DOMAIN vals[i].value :
                  pack_raises(vals[i].value[j], f.size, f.signed,
                              vals[i].is_list)

\* the outcome of fuzz_msg_type: what it returns (vals stands for the
\* serialized field_values_list) or the exception it raises
Outcome(r, is_valid, corrupted_field_index) ==
    [c |-> r.c,
     raised |-> IF r.c.err # "" THEN r.c.err
                ELSE IF serialize_raises(r.vals) THEN "struct.error" ELSE "",
     vals |-> IF r.c.err # "" THEN << >> ELSE r.vals,
     is_valid |-> is_valid,
     invalid_info |-> IF r.c.err # "" THEN NoInfo ELSE r.info,
     corrupted_field_index |-> corrupted_field_index]

\* the loop over msg_type.fields, field k onwards
RECURSIVE fuzz_fields(_, _, _, _)
fuzz_fields(fields, k, corrupted_field_index, acc) ==
    IF k > Len(fields) THEN acc
    ELSE
    LET field == fields[k]
        one(r) ==
            IF field.is_struct
            THEN IF k = corrupted_field_index
                 THEN LET ext(r2) ==
                              { RetI(r2.c, r.vals \o r2.vals, r2.info) }
                      IN  Then(generate_invalid_struct(field, field, r.c), ext)
                 ELSE LET ext(r2) ==
                              { RetI(r2.c, r.vals \o r2.vals, r.info) }
                      IN  Then(generate_valid_struct(field, field, r.c), ext)
            ELSE IF k = corrupted_field_index
                 THEN LET app(r2) ==
                              { RetI(r2.c, Append(r.vals, r2.gv),
                                     TextInfo(field.name, r2.gv.value_type)) }
                      IN  Then(generate_invalid_field(field, r.c), app)
                 ELSE LET app(r2) ==
                              { RetI(r2.c, Append(r.vals, r2.gv), r.info) }
                      IN  Then(generate_valid_field(field, r.c), app)
    IN  fuzz_fields(fields, k + 1, corrupted_field_index, Then(acc, one))

\* a fuzz_msg_type that keeps is_valid = valid when no field is invalidatable
fuzz_msg_type_no_degrade(msg_type, valid, c) ==
    LET start == { RetI(c, << >>, NoInfo) }
        invalid_fields ==
            { i \in DOMAIN msg_type.fields :
                FieldDef_can_generate_invalid_instance(msg_type.fields[i],
                                                       c.il) }
    IN  IF valid
        THEN { Outcome(r, TRUE, 0) :
               r \in fuzz_fields(msg_type.fields, 1, 0, start) }
        ELSE IF invalid_fields = {}
        THEN { Outcome(r, FALSE, -1) :
               r \in fuzz_fields(msg_type.fields, 1, -1, start) }
        ELSE UNION { { Outcome(r, FALSE, corrupted_field_index) :
                       r \in fuzz_fields(msg_type.fields, 1,
                                         corrupted_field_index, start) } :
                     corrupted_field_index \in invalid_fields }

fuzz_msg_type(msg_type, valid, c) ==
    LET start == { RetI(c, << >>, NoInfo) }
        invalid_fields ==
            { i \in DOMAIN msg_type.fields :
                FieldDef_can_generate_invalid_instance(msg_type.fields[i],
                                                       c.il) }
    IN  IF valid
        THEN { Outcome(r, TRUE, 0) :
               r \in fuzz_fields(msg_type.fields, 1, 0, start) }
        ELSE IF invalid_fields = {}
        THEN { Outcome(r, TRUE, -1) :
               r \in fuzz_fields(msg_type.fields, 1, -1, start) }
        ELSE UNION { { Outcome(r, FALSE, corrupted_field_index) :
                       r \in fuzz_fields(msg_type.fields, 1,
                                         corrupted_field_index, start) } :
                     corrupted_field_index \in invalid_fields }

-----------------------------------------------------------------------------
(* gen_util.serialize and gen_util.deserialize.                            *)
(*                                                                         *)
(* A Python int that is not negative is the sequence of its binary digits, *)
(* most significant first, so that a 64-bit value keeps its width; leading *)
(* zeros do not change the number.  The values serialized here are the     *)
(* unsigned integer GeneratedValues: for them struct.unpack never returns  *)
(* a negative number.                                                      *)

Zeros(k) == [i \in 1..k |-> 0]

\* the int n of a few digits
RECURSIVE int_bits(_)
int_bits(n) == IF n = 0 THEN << >> ELSE Append(int_bits(n \div 2), n % 2)

\* the number without its leading zeros
RECURSIVE strip_zeros(_)
strip_zeros(x) ==
    IF x = << >> \/ x[1] = 1 THEN x ELSE strip_zeros(Tail(x))

\* x << k
lshift(x, k) == x \o Zeros(k)

\* x >> k
rshift(x, k) == IF Len(x) <= k THEN << >> ELSE SubSeq(x, 1, Len(x) - k)

\* the k low binary digits of x
low_bits(x, k) ==
    IF Len(x) >= k THEN SubSeq(x, Len(x) - k + 1, Len(x))
    ELSE Zeros(k - Len(x)) \o x

or_digits(a, b) == [i \in DOMAIN a |-> IF a[i] = 1 \/ b[i] = 1 THEN 1 ELSE 0]

\* x | y
bit_or(x, y) ==
    or_digits(low_bits(x, Max(Len(x), Len(y))),
              low_bits(y, Max(Len(x), Len(y))))

\* the octets of a buffer of whole octets, and back
octets_of(b) == [j \in 1..(Len(b) \div 8) |-> SubSeq(b, 8 * j - 7, 8 * j)]

join_octets(bytes) ==
    [i \in 1..(8 * Len(bytes)) |->
        bytes[((i - 1) \div 8) + 1][((i - 1) % 8) + 1]]

reverse(bytes) == [j \in DOMAIN bytes |-> bytes[Len(bytes) + 1 - j]]

\* get_next_octet_offset of create_struct_format
get_next_octet_offset(size) ==
    IF size % 8 = 0 THEN size ELSE size + (8 - (size % 8))

\* max_octet_offset: the width of the struct format chosen for sz bits
\* ('?' B H I Q for an unsigned type)
max_octet_offset(sz) ==
    IF sz <= 8 THEN 8 ELSE IF sz <= 16 THEN 16 ELSE IF sz <= 32 THEN 32
    ELSE 64

\* create_struct_format(value, endian_sym) for an unsigned integer DType:
\* the format ('?' is the format of a one-bit type) and the pad
create_struct_format(dtype) ==
    [bool |-> dtype.size = 1,
     bits |-> max_octet_offset(dtype.size),
     big |-> dtype.is_big_endian,
     pad |-> max_octet_offset(dtype.size)
             - get_next_octet_offset(dtype.size)]

\* struct.pack(fmt, v) raises struct.error when v needs more digits than
\* the format has; '?' takes any number
struct_pack_raises(fmt, v) == ~fmt.bool /\ Len(strip_zeros(v)) > fmt.bits

\* struct.pack(fmt, v): the octets in memory order
struct_pack(fmt, v) ==
    IF fmt.bool
    THEN << low_bits(IF strip_zeros(v) = << >> THEN << >> ELSE <<1>>, 8) >>
    ELSE IF fmt.big THEN octets_of(low_bits(v, fmt.bits))
    ELSE reverse(octets_of(low_bits(v, fmt.bits)))

\* struct.unpack(fmt, bytes)[0]; '?' gives a bool, which counts as 0 or 1
struct_unpack(fmt, bytes) ==
    IF fmt.bool
    THEN (IF strip_zeros(join_octets(bytes)) = << >> THEN << >> ELSE <<1>>)
    ELSE IF fmt.big THEN join_octets(bytes)
    ELSE join_octets(reverse(bytes))

\* bytearray(value).reverse()
attempt_reverse_bytes(bytes) == reverse(bytes)

\* the int branch of serialize: val.value is an int
serialize_int(dtype, fmt, v) ==
    IF ~dtype.is_big_endian /\ dtype.size > 8 /\ dtype.size % 8 = 0
    THEN struct_unpack(fmt, attempt_reverse_bytes(struct_pack(fmt, v)))
    ELSE struct_unpack(fmt, struct_pack(fmt, v))

\* one element of a list value
serialize_element(dtype, fmt, v) ==
    IF dtype.size > 8 /\ dtype.size % 8 = 0
    THEN struct_unpack(fmt, attempt_reverse_bytes(struct_pack(fmt, v)))
    ELSE struct_unpack(fmt, struct_pack(fmt, v))

\* the list branch of serialize: for v in val.value, from element k on
RECURSIVE serialize_list(_, _, _, _, _)
serialize_list(dtype, fmt, value, k, val_serialized) ==
    IF k > Len(value) THEN val_serialized
    ELSE serialize_list(dtype, fmt, value, k + 1,
             bit_or(lshift(val_serialized, dtype.size),
                    serialize_element(dtype, fmt, value[k])))

\* val_serialized before the pad is dropped
val_serialized_of(val, fmt) ==
    IF val.is_list
    THEN serialize_list(val.dtype, fmt, val.value, 1, << >>)
    ELSE serialize_int(val.dtype, fmt, val.value[1])

\* val_size
val_size_of(val) ==
    IF val.is_list THEN val.dtype.size * Len(val.value) ELSE val.dtype.size

\* if not val.dtype.is_big_endian: val_serialized >>= padding
drop_padding(val, fmt, val_serialized) ==
    IF val.dtype.is_big_endian THEN val_serialized
    ELSE rshift(val_serialized, fmt.pad)

\* the body of `for val in vals`
serialize_val(st, val) ==
    IF st.raised \/ \E k \in DOMAIN val.value :
           struct_pack_raises(create_struct_format(val.dtype), val.value[k])
    THEN [st EXCEPT !.raised = TRUE]
    ELSE [serial |-> bit_or(lshift(st.serial, val_size_of(val)),
                        drop_padding(val, create_struct_format(val.dtype),
                            val_serialized_of(val,
                                create_struct_format(val.dtype)))),
          size |-> st.size + val_size_of(val),
          raised |-> FALSE]

RECURSIVE serialize_loop(_, _, _)
serialize_loop(st, vals, k) ==
    IF k > Len(vals) THEN st
    ELSE serialize_loop(serialize_val(st, vals[k]), vals, k + 1)

\* extra_padding = size % 8; serial = serial << extra_padding
extra_padding(st) ==
    IF st.raised THEN st
    ELSE [st EXCEPT !.serial = lshift(st.serial, st.size % 8)]

\* serialize(vals): (serial, size), or raised when struct.pack raises
serialize(vals) ==
    extra_padding(serialize_loop([serial |-> << >>, size |-> 0,
                                  raised |-> FALSE], vals, 1))

\* The signed integer DTypes of gen_util.serialize.  Their values can be
\* negative Python ints, which are kept as integers: x << n is x * 2^n,
\* x >> n is x \div 2^n, and | works on the two's complement digits.

\* a | b of two Python ints
RECURSIVE int_or(_, _)
int_or(a, b) ==
    IF a = 0 THEN b
    ELSE IF b = 0 THEN a
    ELSE IF a = -1 \/ b = -1 THEN -1
    ELSE 2 * int_or(a \div 2, b \div 2)
         + (IF a % 2 = 1 \/ b % 2 = 1 THEN 1 ELSE 0)

\* create_struct_format for a signed integer DType of more than one bit:
\* 'b', 'h' or 'i' by its width, and the pad
create_signed_format(dtype) ==
    [bits |-> max_octet_offset(dtype.size),
     pad |-> max_octet_offset(dtype.size)
             - get_next_octet_offset(dtype.size)]

\* struct.pack raises struct.error outside the format's range
signed_pack_raises(bits, v) ==
    \/ v < (-(2^(bits - 2))) * 2
    \/ v > (2^(bits - 2) - 1) + 2^(bits - 2)

\* octet k of struct.pack(fmt, v), counted from the least significant
packed_octet(v, k) == (v \div (256^k)) % 256

\* struct.unpack('h', attempt_reverse_bytes(struct.pack('h', v)))[0]
unpack_reversed_h(v) ==
    (IF packed_octet(v, 0) >= 128 THEN packed_octet(v, 0) - 256
     ELSE packed_octet(v, 0)) * 256 + packed_octet(v, 1)

\* struct.unpack('<i', attempt_reverse_bytes(struct.pack('<i', v)))[0]
unpack_reversed_i(v) ==
    (IF packed_octet(v, 0) >= 128 THEN packed_octet(v, 0) - 256
     ELSE packed_octet(v, 0)) * (256^3)
    + packed_octet(v, 1) * (256^2) + packed_octet(v, 2) * 256
    + packed_octet(v, 3)

\* the int branch of serialize for a signed DType
serialize_signed_int(dtype, v) ==
    IF ~dtype.is_big_endian /\ dtype.size > 8 /\ dtype.size % 8 = 0
    THEN (IF dtype.size = 16 THEN unpack_reversed_h(v)
          ELSE unpack_reversed_i(v))
    ELSE v

\* the list branch of serialize for a signed DType (fmt = '<i'), from
\* element k on
RECURSIVE serialize_signed_list(_, _, _, _)
serialize_signed_list(dtype, value, k, val_serialized) ==
    IF k > Len(value) THEN val_serialized
    ELSE serialize_signed_list(dtype, value, k + 1,
             int_or(val_serialized * (2^dtype.size),
                    IF dtype.size > 8 /\ dtype.size % 8 = 0
                    THEN unpack_reversed_i(value[k]) ELSE value[k]))

signed_val_serialized(val) ==
    IF val.is_list THEN serialize_signed_list(val.dtype, val.value, 1, 0)
    ELSE serialize_signed_int(val.dtype, val.value[1])

\* if val_serialized < 0: val_serialized += (1 << val_size)
add_val_size(val_serialized, val_size) ==
    IF val_serialized < 0 THEN val_serialized + 2^val_size
    ELSE val_serialized

\* if not val.dtype.is_big_endian: val_serialized >>= padding
signed_drop_padding(val, val_serialized) ==
    IF val.dtype.is_big_endian THEN val_serialized
    ELSE val_serialized \div (2^(create_signed_format(val.dtype).pad))

\* the body of `for val in vals` for a signed value
serialize_signed_val(st, val) ==
    IF st.raised
       \/ (~val.is_list
           /\ signed_pack_raises(create_signed_format(val.dtype).bits,
                                 val.value[1]))
       \/ (val.is_list
           /\ \E k \in DOMAIN val.value : signed_pack_raises(32, val.value[k]))
    THEN [st EXCEPT !.raised = TRUE]
    ELSE [serial |-> int_or(st.serial * (2^val_size_of(val)),
                        signed_drop_padding(val,
                            add_val_size(signed_val_serialized(val),
                                         val_size_of(val)))),
          size |-> st.size + val_size_of(val),
          raised |-> FALSE]

RECURSIVE serialize_signed_loop(_, _, _)
serialize_signed_loop(st, vals, k) ==
    IF k > Len(vals) THEN st
    ELSE serialize_signed_loop(serialize_signed_val(st, vals[k]), vals, k + 1)

\* extra_padding = size % 8; serial = serial << extra_padding
signed_extra_padding(st) ==
    IF st.raised THEN st
    ELSE [st EXCEPT !.serial = st.serial * (2^(st.size % 8))]

\* serialize(vals) on signed values: (serial, size) with serial an integer
serialize_signed(vals) ==
    signed_extra_padding(serialize_signed_loop(
        [serial |-> 0, size |-> 0, raised |-> FALSE], vals, 1))

\* the number an octet stands for
RECURSIVE bits_value(_)
bits_value(x) ==
    IF x = << >> THEN 0
    ELSE 2 * bits_value(SubSeq(x, 1, Len(x) - 1)) + x[Len(x)]

HexDigits ==
    << "0", "1", "2", "3", "4", "5", "6", "7", "8", "9", "a", "b", "c", "d",
       "e", "f" >>

\* "{0:#0{1}x}".format(tmp, 4) for tmp in 0..255
format_hex(tmp) ==
    << "0", "x", HexDigits[(tmp \div 16) + 1], HexDigits[(tmp % 16) + 1] >>

\* a loop that appends the octets instead of inserting them at the front
RECURSIVE deserialize_loop_appending(_, _, _)
deserialize_loop_appending(val, n, vals) ==
    IF n = 0 THEN vals
    ELSE deserialize_loop_appending(rshift(val, 8), n - 1,
             vals \o << format_hex(bits_value(low_bits(val, 8))) >>)

\* for _ in range(num_vals): tmp = val & 0xFF; vals.insert(0, ...);
\* val = val >> 8
RECURSIVE deserialize_loop(_, _, _)
deserialize_loop(val, n, vals) ==
    IF n = 0 THEN vals
    ELSE deserialize_loop(rshift(val, 8), n - 1,
             << format_hex(bits_value(low_bits(val, 8))) >> \o vals)

\* deserialize(val, size): num_vals = math.ceil(size / 8) octets
deserialize(val, size) == deserialize_loop(val, (size + 7) \div 8, << >>)

-----------------------------------------------------------------------------
(* TestcaseGenerator.  A text is the sequence of the pieces it is          *)
(* formatted from (characters for the numbers and names), and a path is    *)
(* the text of its file name.  The record t is the state of one            *)
(* generate_testcase call: the Testcase in memory, and what the call has   *)
(* created on disk (created, in creation order; results is the text of     *)
(* results.txt, line by line).                                             *)

Digits == << "0", "1", "2", "3", "4", "5", "6", "7", "8", "9" >>

\* str(i) for i >= 0
RECURSIVE str_int(_)
str_int(i) ==
    IF i < 10 THEN << Digits[i + 1] >>
    ELSE Append(str_int(i \div 10), Digits[(i % 10) + 1])

\* a fill that leaves the text as it is
zfill_none(text, width) == text

\* text.zfill(width)
zfill(text, width) ==
    IF Len(text) >= width THEN text
    ELSE [k \in 1..(width - Len(text)) |-> "0"] \o text

\* the name of the testcase
testcase_name == << "t", "c" >>

\* GeneratedMessage(msg_type, msg_bytes, msg_size, _valid, invalid_info);
\* msg_type is the index of the message type
GeneratedMessage(msg_type, valid, invalid_info) ==
    [msg_type |-> msg_type, valid |-> valid, invalid_info |-> invalid_info]

\* testcase.add_generated_msg(generated_msg)
add_generated_msg(t, generated_msg) ==
    [t EXCEPT !.messages = Append(t.messages, generated_msg)]

\* '%s' % invalid_info: the text fuzz_msg_type formatted, or str() of the
\* INVALID_TYPE member generate_invalid_struct returned
str_invalid_info(info) ==
    IF info.form = "text" THEN info.field \o << " - ", info.value_type >>
    ELSE IF info.form = "enum" THEN << "INVALID_TYPE.", info.value_type >>
    ELSE << >>

\* '%s_%s%s' % (index, msg.msg_type.name, gen_util.test_message_extension)
binary_filename(i, msg) ==
    zfill(str_int(i), 4) \o << "_" >> \o message_types[msg.msg_type].name
    \o << ".bin" >>

\* '%s_%s - %s%s\n' % (index, msg.msg_type.name, valid_str, invalid_info)
results_line(i, msg) ==
    zfill(str_int(i), 4) \o << "_" >> \o message_types[msg.msg_type].name
    \o << " - ", IF msg.valid THEN "valid" ELSE "invalid" >>
    \o (IF msg.invalid_info.form # "empty"
        THEN << " - " >> \o str_invalid_info(msg.invalid_info) ELSE << >>)
    \o << "\n" >>

\* the paths generate_message_binary_files writes, in order
generate_message_binary_files(messages) ==
    [k \in DOMAIN messages |-> binary_filename(k - 1, messages[k])]

\* the lines generate_results_file writes
generate_results_file(messages) ==
    [k \in DOMAIN messages |-> results_line(k - 1, messages[k])]

\* what create_testcase_dir creates once the new directory is made: the
\* directory, the xxd file, the binary files and results.txt
testcase_files(t) ==
    << testcase_name, testcase_name \o << ".xxd" >> >>
    \o generate_message_binary_files(t.messages)
    \o << << "results.txt" >> >>

\* create_testcase_dir(name, testcase)
create_testcase_dir(t) ==
    IF t.testcase_dir
    THEN [t EXCEPT !.pc = "failed", !.raised = "Exception"]
    ELSE [t EXCEPT !.pc = "done",
                   !.top_dir = TRUE,
                   !.testcase_dir = TRUE,
                   !.created = (IF t.top_dir THEN << >>
                                ELSE << << "testcases" >> >>)
                               \o testcase_files(t),
                   !.results = generate_results_file(t.messages)]

\* an exception of a generation call handled by writing what there is
generate_testcase_catch(t, e) == create_testcase_dir([t EXCEPT !.raised = e])

\* an exception of generate_packet_from_msg leaves generate_testcase
generate_testcase_raise(t, e) == [t EXCEPT !.pc = "aborted", !.raised = e]

\* the lists generate_testcase can build
lists_to_generate(msg_types, msg_count, one_per) ==
    IF one_per THEN {msg_types}
    ELSE [1..msg_count -> { msg_types[k] : k \in DOMAIN msg_types }]

-----------------------------------------------------------------------------
(* The generation run: a loaded specification on which messages are        *)
(* generated one after the other (TestcaseGenerator.generate_testcase      *)
(* calls generate_packet_from_msg for every message of the batch).         *)

NoCall == [msg |-> 0, valid |-> TRUE, raised |-> "", vals |-> << >>,
           is_valid |-> TRUE, invalid_info |-> NoInfo,
           corrupted_field_index |-> 0, ev |-> << >>]

\* the generators that are called on their own, before any call
NoResult == [raised |-> FALSE, ranges |-> {}, contents |-> << >>]

IdleDType ==
    [dtype |-> [size |-> 1, signed |-> FALSE, is_list |-> FALSE,
                list_count |-> 0],
     done |-> FALSE, raised |-> "", gv |-> NoGV]

IdleRange ==
    [field |-> [size |-> 1, signed |-> FALSE, lo |-> 0, hi |-> 1],
     op |-> "", raised |-> "", gv |-> NoGV]

IdleCombine ==
    [val_list |-> << >>, runs |-> 0, first |-> NoResult, second |-> NoResult]

IdleSerialize ==
    [vals |-> << >>, step |-> "", raised |-> FALSE, serial |-> << >>,
     size |-> 0, octets |-> << >>]

\* no generate_testcase call yet, on no loaded specification
IdleTestcase ==
    [msg_types |-> << >>, pc |-> "idle", valid |-> TRUE, one_per |-> FALSE,
     msg_count |-> 0, list_to_generate |-> << >>, messages |-> << >>,
     raised |-> "", top_dir |-> FALSE, testcase_dir |-> FALSE,
     created |-> << >>, results |-> << >>]

\* no call yet on a Choice, on a stand-in field
IdleChoice ==
    [size |-> 1, signed |-> FALSE, contents |-> << >>, op |-> "",
     can |-> TRUE, raised |-> "", gv |-> NoGV]

\* no generate_invalid_value call yet on a Single, on a stand-in field
IdleSingle ==
    [size |-> 1, signed |-> FALSE, value |-> 0, is_list |-> FALSE,
     pc |-> "", invalid_data |-> << >>, cnt |-> 0, samples |-> 0,
     differed |-> FALSE, raised |-> "", gv |-> NoGV]

\* no generate_invalid_value call yet on a list field, on a stand-in field
IdleList ==
    [field |-> FieldDef(<<"f">>, 1, FALSE, TRUE, 1, NoName, FALSE, FALSE,
                        NoValue),
     n |-> 1, op |-> "", raised |-> "", gv |-> NoGV]

\* no FieldDef constructed yet, on a stand-in field
IdleField ==
    [field |-> FieldDef(<<"f">>, 1, FALSE, FALSE, 0, NoName, FALSE, FALSE,
                        NoValue),
     op |-> "", raised |-> ""]

InitIdle ==
    /\ vfd = IdleField
    /\ vls = IdleList
    /\ vsg = IdleSingle
    /\ vch = IdleChoice
    /\ tc = IdleTestcase
    /\ ser = IdleSerialize
    /\ dt = IdleDType
    /\ rng = IdleRange
    /\ cmb = IdleCombine

Init ==
    /\ dependency_values = << >>
    /\ dependency_call = << >>
    /\ dtype_is_list = [n \in FieldNames |-> FieldNamed(n).is_list]
    /\ calls = 0
    /\ last = NoCall
    /\ InitIdle

Context ==
    [dv |-> dependency_values, dc |-> dependency_call, il |-> dtype_is_list,
     ev |-> << >>, err |-> "", call |-> calls + 1, inv |-> FALSE]

Generate(m, valid) ==
    /\ calls < MaxCalls
    /\ \E o \in fuzz_msg_type(message_types[m], valid, Context) :
          /\ dependency_values' = o.c.dv
          /\ dependency_call' = o.c.dc
          /\ dtype_is_list' = o.c.il
          /\ last' = [msg |-> m, valid |-> valid, raised |-> o.raised,
                      vals |-> o.vals, is_valid |-> o.is_valid,
                      invalid_info |-> o.invalid_info,
                      corrupted_field_index |-> o.corrupted_field_index,
                      ev |-> o.c.ev]
    /\ calls' = calls + 1
    /\ UNCHANGED <<dt, rng, cmb, ser, tc, vch, vsg, vls, vfd >>

GenerateValid == \E m \in DOMAIN message_types : Generate(m, TRUE)

GenerateInvalid == \E m \in DOMAIN message_types : Generate(m, FALSE)

Next == GenerateValid \/ GenerateInvalid

Spec == Init /\ [][Next]_vars

-----------------------------------------------------------------------------------------------------------------------------------------------------
(* The generators called on their own: one DType, one Range-constrained    *)
(* field, one list of Ranges.  The generation run stays idle.              *)

IdleRun ==
    /\ dependency_values = << >>
    /\ dependency_call = << >>
    /\ dtype_is_list = [n \in FieldNames |-> FieldNamed(n).is_list]
    /\ calls = 0
    /\ last = NoCall

\* the context of a call on a field of its own
FieldContext(f) ==
    [dv |-> << >>, dc |-> << >>, il |-> (f.name :> f.is_list),
     ev |-> << >>, err |-> "", call |-> 1, inv |-> FALSE]

\* the native integer DTypes: U<w>, I<w>, U<w>[n], I<w>[n]
DTypes ==
    { [size |-> w, signed |-> s, is_list |-> l, list_count |-> n] :
        w \in 1..MaxWidth, s \in BOOLEAN, l \in BOOLEAN,
        n \in 0..MaxListCount }

DTypeField(d) ==
    FieldDef(<<"f">>, d.size, d.signed, d.is_list, d.list_count, NoName,
             FALSE, FALSE, NoValue)

InitDType ==
    /\ IdleRun
    /\ vfd = IdleField
    /\ vls = IdleList
    /\ vsg = IdleSingle
    /\ vch = IdleChoice
    /\ tc = IdleTestcase
    /\ ser = IdleSerialize
    /\ rng = IdleRange
    /\ cmb = IdleCombine
    /\ dt \in { [dtype |-> d, done |-> FALSE, raised |-> "", gv |-> NoGV] :
                 d \in { d \in DTypes : d.is_list \/ d.list_count = 0 } }

DTypeGenerateValidValue ==
    /\ ~dt.done
    /\ \E r \in DType_generate_valid_value(DTypeField(dt.dtype),
                      FieldContext(DTypeField(dt.dtype))) :
          dt' = [dt EXCEPT !.done = TRUE, !.raised = r.c.err, !.gv = r.gv]
    /\ UNCHANGED << dependency_values, dependency_call, dtype_is_list, calls,
                    last, rng, cmb, ser, tc, vch, vsg, vls, vfd >>

NextDType == DTypeGenerateValidValue

SpecDType == InitDType /\ [][NextDType]_vars

\* the Ranges a field of the type can be given: parse_range_string wants
\* min < max, FieldDef.check_valid wants both inside the type's bounds
RangeFields ==
    { [size |-> w, signed |-> s, lo |-> a, hi |-> b] :
        w \in 1..MaxWidth, s \in BOOLEAN,
        a \in -(2^(MaxWidth - 1))..(2^MaxWidth - 1),
        b \in -(2^(MaxWidth - 1))..(2^MaxWidth - 1) }

RangeField(r) ==
    Scalar(<<"f">>, r.size, r.signed, FALSE, FALSE, ValueRange(r.lo, r.hi))

InitRange ==
    /\ IdleRun
    /\ vfd = IdleField
    /\ vls = IdleList
    /\ vsg = IdleSingle
    /\ vch = IdleChoice
    /\ tc = IdleTestcase
    /\ ser = IdleSerialize
    /\ dt = IdleDType
    /\ cmb = IdleCombine
    /\ rng \in { [field |-> r, op |-> "", raised |-> "", gv |-> NoGV] :
                  r \in { r \in RangeFields :
                            /\ r.lo < r.hi
                            /\ get_bounds(r.size, r.signed)[1] <= r.lo
                            /\ r.hi <= get_bounds(r.size, r.signed)[2] } }

RangeGenerateValidValue ==
    /\ rng.op = ""
    /\ \E r \in FieldDef_generate_valid_value(RangeField(rng.field),
                      FieldContext(RangeField(rng.field))) :
          rng' = [rng EXCEPT !.op = "valid", !.raised = r.c.err, !.gv = r.gv]
    /\ UNCHANGED << dependency_values, dependency_call, dtype_is_list, calls,
                    last, dt, cmb, ser, tc, vch, vsg, vls, vfd >>

RangeGenerateInvalidValue ==
    /\ rng.op = ""
    /\ \E r \in ValueRange_generate_invalid_value(
                      RangeField(rng.field).value, RangeField(rng.field),
                      FieldContext(RangeField(rng.field))) :
          rng' = [rng EXCEPT !.op = "invalid", !.raised = r.c.err,
                             !.gv = r.gv]
    /\ UNCHANGED << dependency_values, dependency_call, dtype_is_list, calls,
                    last, dt, cmb, ser, tc, vch, vsg, vls, vfd >>

NextRange == RangeGenerateValidValue \/ RangeGenerateInvalidValue

SpecRange == InitRange /\ [][NextRange]_vars

\* the Ranges of one type that combine_values is given
Ranges ==
    { [lo |-> a, hi |-> b] : a \in 0..MaxBound, b \in 0..MaxBound }

RangeLists ==
    UNION { [1..n -> { r \in Ranges : r.lo < r.hi }] : n \in 1..MaxRanges }

\* the orders list(set(...)) can return the ranges in
Orders(S) ==
    { p \in [1..Cardinality(S) -> S] :
        \A i, j \in DOMAIN p : i # j => p[i] # p[j] }

InitCombine ==
    /\ IdleRun
    /\ vfd = IdleField
    /\ vls = IdleList
    /\ vsg = IdleSingle
    /\ vch = IdleChoice
    /\ tc = IdleTestcase
    /\ ser = IdleSerialize
    /\ dt = IdleDType
    /\ rng = IdleRange
    /\ cmb \in { [val_list |-> l, runs |-> 0, first |-> NoResult,
                   second |-> NoResult] : l \in RangeLists }

CombineValues ==
    /\ cmb.runs = 0
    /\ cmb' = [cmb EXCEPT !.runs = 1,
                          !.first = combine_values(cmb.val_list)]
    /\ UNCHANGED << dependency_values, dependency_call, dtype_is_list, calls,
                    last, dt, rng, ser, tc, vch, vsg, vls, vfd >>

\* combine_values on the list the first call returned
CombineValuesAgain ==
    /\ cmb.runs = 1
    /\ ~cmb.first.raised
    /\ \E val_list \in Orders(cmb.first.ranges) :
          cmb' = [cmb EXCEPT !.runs = 2,
                             !.second = combine_values(val_list)]
    /\ UNCHANGED << dependency_values, dependency_call, dtype_is_list, calls,
                    last, dt, rng, ser, tc, vch, vsg, vls, vfd >>

NextCombine == CombineValues \/ CombineValuesAgain

SpecCombine == InitCombine /\ [][NextCombine]_vars

-----------------------------------------------------------------------------
(* The serializer called on its own: gen_util.serialize on one or two      *)
(* unsigned integer GeneratedValues, then gen_util.deserialize on what it  *)
(* returned.                                                               *)

\* the bit widths of the DTypes that are serialized
SerWidths == {1, 3, 8, 12, 16, 32, 64}

SerDTypes ==
    { [size |-> w, is_big_endian |-> b] : w \in SerWidths, b \in BOOLEAN }

\* the value whose octet j, counted from the most significant, is j
counting_octets(w) ==
    low_bits(join_octets([j \in 1..((w + 7) \div 8) |->
                             low_bits(int_bits(j), 8)]), w)

\* the values of a w-bit unsigned type that are serialized
SerValues(w) ==
    { Zeros(w), low_bits(<<1>>, w), [i \in 1..w |-> 1], counting_octets(w) }

\* the list values: 1, 2, ..., n or n times the same value
SerListValues(w) ==
    UNION { { [k \in 1..n |-> low_bits(int_bits(k), w)] }
            \cup { [k \in 1..n |-> v] : v \in SerValues(w) \ {Zeros(w)} } :
            n \in 1..MaxElements }

SerGeneratedValues ==
    UNION { { [dtype |-> d, is_list |-> FALSE, value |-> <<v>>] :
                v \in SerValues(d.size) }
            \cup { [dtype |-> d, is_list |-> TRUE, value |-> l] :
                     l \in SerListValues(d.size) } : d \in SerDTypes }

InitSerialize ==
    /\ IdleRun
    /\ vfd = IdleField
    /\ vls = IdleList
    /\ vsg = IdleSingle
    /\ vch = IdleChoice
    /\ tc = IdleTestcase
    /\ dt = IdleDType
    /\ rng = IdleRange
    /\ cmb = IdleCombine
    /\ ser \in { [IdleSerialize EXCEPT !.vals = vals] :
                  vals \in { <<a>> : a \in SerGeneratedValues }
                           \cup (SerGeneratedValues \X SerGeneratedValues) }

SerializeVals ==
    /\ ser.step = ""
    /\ ser' = [ser EXCEPT !.step = "serialized",
                          !.raised = serialize(ser.vals).raised,
                          !.serial = serialize(ser.vals).serial,
                          !.size = serialize(ser.vals).size]
    /\ UNCHANGED << dependency_values, dependency_call, dtype_is_list, calls,
                    last, dt, rng, cmb, tc, vch, vsg, vls, vfd >>

DeserializeVals ==
    /\ ser.step = "serialized"
    /\ ~ser.raised
    /\ ser' = [ser EXCEPT !.step = "deserialized",
                          !.octets = deserialize(ser.serial, ser.size)]
    /\ UNCHANGED << dependency_values, dependency_call, dtype_is_list, calls,
                    last, dt, rng, cmb, tc, vch, vsg, vls, vfd >>

NextSerialize == SerializeVals \/ DeserializeVals

SpecSerialize == InitSerialize /\ [][NextSerialize]_vars

-----------------------------------------------------------------------------
(* TestcaseGenerator.generate_testcase on a loaded specification: the      *)
(* steps of one call.  The specification loaded is a run of consecutive    *)
(* message types of the catalogue.                                         *)

LoadedSpecs ==
    { [k \in 1..n |-> first + k - 1] :
        first \in DOMAIN message_types, n \in 1..MaxTypes }
    \cap UNION { [1..n -> DOMAIN message_types] : n \in 1..MaxTypes }

InitTestcase ==
    /\ vfd = IdleField
    /\ vls = IdleList
    /\ vsg = IdleSingle
    /\ vch = IdleChoice
    /\ dependency_values = << >>
    /\ dependency_call = << >>
    /\ dtype_is_list = [n \in FieldNames |-> FieldNamed(n).is_list]
    /\ calls = 0
    /\ last = NoCall
    /\ dt = IdleDType
    /\ rng = IdleRange
    /\ cmb = IdleCombine
    /\ ser = IdleSerialize
    /\ tc \in { [IdleTestcase EXCEPT !.msg_types = l, !.top_dir = d[1],
                                      !.testcase_dir = d[2]] :
                 l \in LoadedSpecs,
                 d \in { <<FALSE, FALSE>>, <<TRUE, FALSE>>, <<TRUE, TRUE>> } }

\* generate_testcase(valid, msg_count, name, one_per) up to its loop
BuildList ==
    /\ tc.pc = "idle"
    /\ \E valid \in BOOLEAN, one_per \in BOOLEAN, msg_count \in 0..MaxCalls :
       \E l \in lists_to_generate(tc.msg_types, msg_count, one_per) :
          tc' = [tc EXCEPT !.pc = "generating", !.valid = valid,
                           !.one_per = one_per, !.msg_count = msg_count,
                           !.list_to_generate = l]
    /\ UNCHANGED << dependency_values, dependency_call, dtype_is_list, calls,
                    last, dt, rng, cmb, ser, vch, vsg, vls, vfd >>

\* one turn of `for msg_type in list_to_generate`
GenerateMessage ==
    /\ tc.pc = "generating"
    /\ Len(tc.messages) < Len(tc.list_to_generate)
    /\ \E o \in fuzz_msg_type(
                  message_types[tc.list_to_generate[Len(tc.messages) + 1]],
                  tc.valid, Context) :
          /\ dependency_values' = o.c.dv
          /\ dependency_call' = o.c.dc
          /\ dtype_is_list' = o.c.il
          /\ tc' = IF o.raised # ""
                   THEN generate_testcase_raise(tc, o.raised)
                   ELSE add_generated_msg(tc,
                            GeneratedMessage(
                                tc.list_to_generate[Len(tc.messages) + 1],
                                o.is_valid, o.invalid_info))
    /\ calls' = calls + 1
    /\ UNCHANGED << last, dt, rng, cmb, ser, vch, vsg, vls, vfd >>

\* testcase_dirpath = self.create_testcase_dir(name, testcase)
CreateTestcaseDir ==
    /\ tc.pc = "generating"
    /\ Len(tc.messages) = Len(tc.list_to_generate)
    /\ tc' = create_testcase_dir(tc)
    /\ UNCHANGED << dependency_values, dependency_call, dtype_is_list, calls,
                    last, dt, rng, cmb, ser, vch, vsg, vls, vfd >>

NextTestcase == BuildList \/ GenerateMessage \/ CreateTestcaseDir

SpecTestcase == InitTestcase /\ [][NextTestcase]_vars

-----------------------------------------------------------------------------
(* A Choice called on its own: ValueChoice.can_generate_invalid_instance    *)
(* and ValueChoice.generate_invalid_value on the contents that              *)
(* ValueChoice.parse_choice_string builds for an integer field.            *)

\* sorted(list(choice_set)) of a set of Singles: ascending, no duplicates
sorted_singles(n, values) ==
    { sq \in [1..n -> values] : \A i \in 1..(n - 1) : sq[i] < sq[i + 1] }

SingleChoices(size, signed) ==
    UNION { { [size |-> size, signed |-> signed,
               contents |-> [i \in DOMAIN sq |-> ValueSingle(sq[i])]] :
              sq \in sorted_singles(n, get_bounds(size, signed)[1]
                                        .. get_bounds(size, signed)[2]) } :
            n \in 1..(2^size) }

\* list(choice_set) of a set of Ranges inside the type's bounds
choice_set_lists(size) ==
    { l \in RangeLists :
        /\ \A i \in DOMAIN l : l[i].hi <= get_bounds(size, FALSE)[2]
        /\ \A i, j \in DOMAIN l : i # j => l[i] # l[j] }

\* sorted(list(set(ValueRange.combine_values(list(choice_set)))))
RangeChoices(size) ==
    UNION { { [size |-> size, signed |-> FALSE,
               contents |-> [i \in DOMAIN sq |->
                               ValueRange(sq[i].lo, sq[i].hi)]] :
              sq \in sorted_ranges(combine_values(l).ranges) } :
            l \in { l \in choice_set_lists(size) :
                      /\ ~combine_values(l).raised
                      /\ combine_values(l).ranges # {} } }

ChoiceField(c) ==
    Scalar(<<"f">>, c.size, c.signed, FALSE, FALSE, ValueChoice(c.contents))

InitChoice ==
    /\ IdleRun
    /\ vfd = IdleField
    /\ vls = IdleList
    /\ tc = IdleTestcase
    /\ ser = IdleSerialize
    /\ dt = IdleDType
    /\ rng = IdleRange
    /\ cmb = IdleCombine
    /\ vsg = IdleSingle
    /\ vch \in { [IdleChoice EXCEPT !.size = c.size, !.signed = c.signed,
                                    !.contents = c.contents] :
                 c \in UNION { SingleChoices(w, s) :
                               w \in 1..MaxChoiceWidth, s \in BOOLEAN }
                       \cup UNION { RangeChoices(w) : w \in 2..MaxWidth } }

ChoiceCanGenerateInvalidInstance ==
    /\ vch.op = ""
    /\ vch' = [vch EXCEPT !.op = "can",
                          !.can = Value_can_generate_invalid_instance(
                                      ChoiceField(vch).value,
                                      ChoiceField(vch))]
    /\ UNCHANGED << dependency_values, dependency_call, dtype_is_list, calls,
                    last, dt, rng, cmb, ser, tc, vsg, vls, vfd >>

ChoiceGenerateInvalidValue ==
    /\ vch.op = ""
    /\ \E r \in Value_generate_invalid_value(
                    ChoiceField(vch).value, ChoiceField(vch),
                    FieldContext(ChoiceField(vch))) :
          vch' = [vch EXCEPT !.op = "invalid", !.raised = r.c.err,
                             !.gv = r.gv]
    /\ UNCHANGED << dependency_values, dependency_call, dtype_is_list, calls,
                    last, dt, rng, cmb, ser, tc, vsg, vls, vfd >>

NextChoice == ChoiceCanGenerateInvalidInstance \/ ChoiceGenerateInvalidValue

SpecChoice == InitChoice /\ [][NextChoice]_vars

-----------------------------------------------------------------------------
(* A Single called on its own: ValueSingle.generate_invalid_value, one     *)
(* step per sample.  is_list is the flag of the DType the Single shares    *)
(* with its field, which an earlier call may have left set.                *)

\* a classification that never degrades to valid
ValueSingle_value_type_generic(invalid_data, value) == INVALID_VALUE

\* value_type = INVALID_VALUE; if invalid_data == self.value: VALID_VALUE
ValueSingle_value_type(invalid_data, value) ==
    IF invalid_data = << value >> THEN VALID_VALUE ELSE INVALID_VALUE

SingleField(g) ==
    Scalar(<<"f">>, g.size, g.signed, FALSE, FALSE, ValueSingle(g.value))

\* the context of a sample: self.dtype.is_list is False while sampling
SampleContext(g) == set_is_list(FieldContext(SingleField(g)),
                                SingleField(g), FALSE)

\* invalid_data = self.dtype.generate_valid_value().value
take_sample(g, r, cnt) ==
    IF r.c.err # ""
    THEN [g EXCEPT !.pc = "raised", !.raised = r.c.err, !.is_list = FALSE]
    ELSE [g EXCEPT !.pc = "loop", !.is_list = FALSE,
                   !.invalid_data = r.gv.value, !.cnt = cnt,
                   !.samples = g.samples + 1,
                   !.differed = g.differed \/ r.gv.value # << g.value >>]

InitSingle ==
    /\ IdleRun
    /\ vfd = IdleField
    /\ vls = IdleList
    /\ tc = IdleTestcase
    /\ ser = IdleSerialize
    /\ dt = IdleDType
    /\ rng = IdleRange
    /\ cmb = IdleCombine
    /\ vch = IdleChoice
    /\ vsg \in { [IdleSingle EXCEPT !.size = w, !.signed = s, !.value = v,
                                    !.is_list = l] :
                 w \in 1..MaxWidth, s \in BOOLEAN, l \in BOOLEAN,
                 v \in -(2^(MaxWidth - 1))..(2^MaxWidth - 1) }
    /\ get_bounds(vsg.size, vsg.signed)[1] <= vsg.value
    /\ vsg.value <= get_bounds(vsg.size, vsg.signed)[2]

\* self.dtype.is_list = False; the first sample; cnt = 0
SingleFirstSample ==
    /\ vsg.pc = ""
    /\ \E r \in DType_generate_valid_value(SingleField(vsg),
                                           SampleContext(vsg)) :
          vsg' = take_sample(vsg, r, 0)
    /\ UNCHANGED << dependency_values, dependency_call, dtype_is_list, calls,
                    last, dt, rng, cmb, ser, tc, vch, vls, vfd >>

\* one turn of `while invalid_data == self.value and cnt < 10`
SingleResample ==
    /\ vsg.pc = "loop"
    /\ vsg.invalid_data = << vsg.value >>
    /\ vsg.cnt < resample_limit
    /\ \E r \in DType_generate_valid_value(SingleField(vsg),
                                           SampleContext(vsg)) :
          vsg' = take_sample(vsg, r, vsg.cnt + 1)
    /\ UNCHANGED << dependency_values, dependency_call, dtype_is_list, calls,
                    last, dt, rng, cmb, ser, tc, vch, vls, vfd >>

\* self.dtype.is_list = True; the classification; the return
SingleReturn ==
    /\ vsg.pc = "loop"
    /\ ~(vsg.invalid_data = << vsg.value >> /\ vsg.cnt < resample_limit)
    /\ vsg' = [vsg EXCEPT !.pc = "returned", !.is_list = TRUE,
                          !.gv = GeneratedValue(
                                     ValueSingle_value_type(vsg.invalid_data,
                                                            vsg.value),
                                     vsg.invalid_data, FALSE)]
    /\ UNCHANGED << dependency_values, dependency_call, dtype_is_list, calls,
                    last, dt, rng, cmb, ser, tc, vch, vls, vfd >>

NextSingle == SingleFirstSample \/ SingleResample \/ SingleReturn

SpecSingle == InitSingle /\ [][NextSingle]_vars

-----------------------------------------------------------------------------
(* A list field called on its own: ValueList.generate_invalid_value on a   *)
(* field that declares a List, DType.generate_invalid_value on a list      *)
(* field without a value.  n is the length required of the list: the       *)
(* number of declared elements, the fixed count or the dependency's value. *)

\* the elements a List of a U<size> field can declare
ListElements(size) ==
    { ValueSingle(v) : v \in 0..(2^size - 1) }
    \cup { ValueRange(a, b) : a \in 0..(2^size - 1), b \in 1..(2^size - 1) }

\* NAME,[ITEM,...],U<size>[list_count] with as many items as the count
DeclaredLists ==
    { [field |-> FieldDef(<<"f">>, w, FALSE, TRUE, Len(l), NoName, FALSE,
                          FALSE, ValueList(l)),
       n |-> Len(l)] :
      w \in 1..MaxChoiceWidth,
      l \in UNION { [1..k -> ListElements(MaxChoiceWidth)] :
                    k \in 1..MaxListCount } }

\* NAME,,U<size>[n] and NAME,,U<size>[len] with len published as n
UnconstrainedLists ==
    { [field |-> FieldDef(<<"f">>, w, s, TRUE, n, NoName, FALSE, FALSE,
                          NoValue),
       n |-> n] :
      w \in 1..MaxWidth, s \in BOOLEAN, n \in 1..(MaxListCount + 1) }
    \cup { [field |-> FieldDef(<<"f">>, w, s, TRUE, 0, <<"l","e","n">>,
                               FALSE, FALSE, NoValue),
            n |-> n] :
           w \in 1..MaxWidth, s \in BOOLEAN, n \in 0..(MaxListCount + 1) }

\* gen_util.dependency_values when the call is made
ListContext(g) ==
    IF has_type_dependency(g.field)
    THEN Publish(FieldContext(g.field), Lower(g.field.dependency),
                 << g.n >>, FALSE)
    ELSE FieldContext(g.field)

InitList ==
    /\ IdleRun
    /\ vfd = IdleField
    /\ tc = IdleTestcase
    /\ ser = IdleSerialize
    /\ dt = IdleDType
    /\ rng = IdleRange
    /\ cmb = IdleCombine
    /\ vch = IdleChoice
    /\ vsg = IdleSingle
    /\ vls \in { [IdleList EXCEPT !.field = g.field, !.n = g.n] :
                 g \in { d \in DeclaredLists :
                           \A i \in DOMAIN d.field.value.items :
                              /\ d.field.value.items[i].lo
                                 <= d.field.value.items[i].hi
                              /\ d.field.value.items[i].hi
                                 <= get_bounds(d.field.size, FALSE)[2]
                              /\ d.field.value.items[i].t = "range"
                                 => d.field.value.items[i].lo
                                    < d.field.value.items[i].hi }
                       \cup UnconstrainedLists }

ListGenerateInvalidValue ==
    /\ vls.op = ""
    /\ vls.field.value # NoValue
    /\ \E r \in Value_generate_invalid_value(vls.field.value, vls.field,
                                             ListContext(vls)) :
          vls' = [vls EXCEPT !.op = "invalid", !.raised = r.c.err,
                             !.gv = r.gv]
    /\ UNCHANGED << dependency_values, dependency_call, dtype_is_list, calls,
                    last, dt, rng, cmb, ser, tc, vch, vsg, vfd >>

DTypeGenerateInvalidValue ==
    /\ vls.op = ""
    /\ vls.field.value = NoValue
    /\ \E r \in DType_generate_invalid_value(vls.field, ListContext(vls)) :
          vls' = [vls EXCEPT !.op = "invalid", !.raised = r.c.err,
                             !.gv = r.gv]
    /\ UNCHANGED << dependency_values, dependency_call, dtype_is_list, calls,
                    last, dt, rng, cmb, ser, tc, vch, vsg, vfd >>

NextList == ListGenerateInvalidValue \/ DTypeGenerateInvalidValue

SpecList == InitList /\ [][NextList]_vars

-----------------------------------------------------------------------------
(* The serializer called on signed values: gen_util.serialize on one or   *)
(* two GeneratedValues of signed integer DTypes, scalars and lists.       *)

\* the bit widths of the signed DTypes that are serialized
SignedWidths == {3, 8, 16}

SignedDTypes ==
    { [size |-> w, is_big_endian |-> b, signed |-> TRUE] :
      w \in SignedWidths, b \in BOOLEAN }

\* the least, the greatest and the values around zero
SignedValues(w) == { -(2^(w - 1)), -2, -1, 0, 1, 2^(w - 1) - 1 }

SignedGeneratedValues ==
    UNION { { [dtype |-> d, is_list |-> FALSE, value |-> <<v>>] :
                v \in SignedValues(d.size) }
            \cup { [dtype |-> d, is_list |-> TRUE, value |-> l] :
                     l \in UNION { [1..n -> {-2, -1, 1}] :
                                   n \in 1..(IF d.size <= 8
                                              THEN MaxListCount ELSE 1) } } :
            d \in SignedDTypes }

InitSigned ==
    /\ IdleRun
    /\ vfd = IdleField
    /\ tc = IdleTestcase
    /\ dt = IdleDType
    /\ rng = IdleRange
    /\ cmb = IdleCombine
    /\ vch = IdleChoice
    /\ vsg = IdleSingle
    /\ vls = IdleList
    /\ ser \in { [IdleSerialize EXCEPT !.vals = vals, !.serial = 0] :
                  vals \in { <<a>> : a \in SignedGeneratedValues }
                           \cup { <<a, b>> :
                                  a \in { g \in SignedGeneratedValues :
                                            ~g.is_list /\ g.dtype.size <= 8 },
                                  b \in { g \in SignedGeneratedValues :
                                            g.dtype.size <= 8 } } }

SerializeSigned ==
    /\ ser.step = ""
    /\ ser' = [ser EXCEPT !.step = "serialized",
                          !.raised = serialize_signed(ser.vals).raised,
                          !.serial = serialize_signed(ser.vals).serial,
                          !.size = serialize_signed(ser.vals).size]
    /\ UNCHANGED << dependency_values, dependency_call, dtype_is_list, calls,
                    last, dt, rng, cmb, tc, vch, vsg, vls, vfd >>

NextSigned == SerializeSigned

SpecSigned == InitSigned /\ [][NextSigned]_vars

-----------------------------------------------------------------------------
(* FieldDef.__init__ on a parsed DType and a parsed value definition:      *)
(* check_valid, which raises or lets the construction complete.            *)

\* Value.get_all_single_values: the numbers of the ValueSingles that make
\* up the value, the two bounds for a Range
RECURSIVE get_all_single_values(_)
get_all_single_values(val) ==
    IF val.t = "single" THEN << val.lo >>
    ELSE IF val.t = "range" THEN << val.lo, val.hi >>
    ELSE IF val.items = << >> THEN << >>
    ELSE get_all_single_values(Head(val.items))
         \o get_all_single_values([val EXCEPT !.items = Tail(val.items)])

\* Value.get_all_types: the type of the value, then the types inside it
RECURSIVE get_all_types(_)
get_all_types(val) ==
    IF val.t = "single" THEN {"single"}
    ELSE IF val.t = "range" THEN {"range", "single"}
    ELSE {val.t} \cup UNION { get_all_types(val.items[i]) :
                              i \in DOMAIN val.items }

\* in_bounds(value) of check_valid, on an integer
in_bounds(f, value) ==
    get_bounds(f.size, f.signed)[1] <= value
    /\ value <= get_bounds(f.size, f.signed)[2]

\* the checks made when the DType is a list
check_valid_list(f) ==
    IF /\ f.value.t = "choice"
       /\ \E i \in DOMAIN f.value.items :
             \/ f.value.items[i].t # "list"
             \/ Len(f.value.items[i].items) > f.list_count
    THEN "SyntaxError"
    ELSE IF f.value.t # "list" THEN "SyntaxError"
    ELSE IF Len(f.value.items) > f.list_count THEN "SyntaxError"
    ELSE ""

\* FieldDef.check_valid: the exception raised, "" when none
check_valid(f) ==
    IF f.value = NoValue THEN ""
    ELSE IF \E k \in DOMAIN get_all_single_values(f.value) :
               f.size # -1 /\ ~in_bounds(f, get_all_single_values(f.value)[k])
    THEN "ValueError"
    ELSE IF f.is_list /\ check_valid_list(f) # "" THEN check_valid_list(f)
    ELSE IF ~f.is_list /\ "list" \in get_all_types(f.value)
    THEN "SyntaxError"
    ELSE IF /\ f.value.t = "list"
            /\ ~(f.is_list \/ f.dependency = NoName)
    THEN "SyntaxError"
    ELSE ""

\* the items a List or a Choice is written with
FieldItems ==
    { ValueSingle(v) : v \in 0..MaxBound }
    \cup { ValueRange(0, 1), ValueRange(1, MaxBound) }

\* lists of at most n of the given items
ItemLists(items, n) ==
    UNION { { ValueList(l) : l \in [1..k -> items] } : k \in 1..n }

\* two literals, the lower one first
Ascending == { p \in (0..MaxBound) \X (0..MaxBound) : p[1] < p[2] }

\* the values a field definition is written with: none, a Single, a Range,
\* a List, a Choice of Singles, of Ranges that stay apart, or of Lists
FieldValues ==
    {NoValue}
    \cup { ValueSingle(v) : v \in 0..MaxBound }
    \cup { ValueRange(p[1], p[2]) : p \in Ascending }
    \cup ItemLists(FieldItems, MaxListCount + 1)
    \cup { ValueChoice(<< ValueSingle(p[1]), ValueSingle(p[2]) >>) :
             p \in Ascending }
    \cup { ValueChoice(<< ValueRange(0, 1), ValueRange(3, b) >>) :
             b \in 4..MaxBound }
    \cup { ValueChoice(<< a, b >>) :
             a \in ItemLists({ValueSingle(0), ValueSingle(MaxBound)},
                             MaxListCount + 1),
             b \in ItemLists({ValueSingle(1)}, MaxListCount + 1) }

\* the DTypes: U<w> and I<w>, scalar, with a fixed count, or with a
\* dependency
FieldDTypes ==
    { FieldDef(<<"f">>, w, s, FALSE, 0, NoName, FALSE, FALSE, NoValue) :
        w \in 1..MaxChoiceWidth, s \in BOOLEAN }
    \cup { FieldDef(<<"f">>, w, s, TRUE, n, NoName, FALSE, FALSE, NoValue) :
             w \in 1..MaxChoiceWidth, s \in BOOLEAN, n \in 1..MaxListCount }
    \cup { FieldDef(<<"f">>, w, s, TRUE, 0, <<"l","e","n">>, FALSE, FALSE,
                    NoValue) :
             w \in 1..MaxChoiceWidth, s \in BOOLEAN }

InitField ==
    /\ IdleRun
    /\ tc = IdleTestcase
    /\ ser = IdleSerialize
    /\ dt = IdleDType
    /\ rng = IdleRange
    /\ cmb = IdleCombine
    /\ vch = IdleChoice
    /\ vsg = IdleSingle
    /\ vls = IdleList
    /\ vfd \in { [IdleField EXCEPT !.field = [d EXCEPT !.value = v]] :
                 d \in FieldDTypes, v \in FieldValues }

\* FieldDef(name, value_def, dtype)
ConstructFieldDef ==
    /\ vfd.op = ""
    /\ vfd' = [vfd EXCEPT !.op = "constructed",
                          !.raised = check_valid(vfd.field)]
    /\ UNCHANGED << dependency_values, dependency_call, dtype_is_list, calls,
                    last, dt, rng, cmb, ser, tc, vch, vsg, vls >>

NextField == ConstructFieldDef

SpecField == InitField /\ [][NextField]_vars

-----------------------------------------------------------------------------
(* What a message type requires of a flattened value list.  This is the    *)
(* reading of the message type itself (the declared constraints), written  *)
(* as a parser of the list, independent of how the list was generated.     *)
(* The parser checks the fields in scope: all of them, the strict ones,    *)
(* the counts of the lists that have a dependency, or the repetition       *)
(* counts of the structs.                                                  *)

RECURSIVE in_domain(_, _)
in_domain(val, v) ==
    CASE val.t = "single" -> v = val.lo
      [] val.t = "range" -> val.lo <= v /\ v <= val.hi
      [] val.t = "choice" ->
            \E i \in DOMAIN val.items : in_domain(val.items[i], v)
      [] OTHER -> TRUE

in_type_bounds(f, v) ==
    get_bounds(f.size, f.signed)[1] <= v /\ v <= get_bounds(f.size, f.signed)[2]

\* element i of the field satisfies the field's constraint
element_ok(f, i, v) ==
    /\ in_type_bounds(f, v)
    /\ IF f.value.t = "list"
       THEN i \in DOMAIN f.value.items /\ in_domain(f.value.items[i], v)
       ELSE in_domain(f.value, v)

in_scope(scope, f) ==
    \/ scope = "all"
    \/ scope = "strict" /\ f.strict
    \/ scope = "dependent" /\ has_type_dependency(f)
    \/ scope = "structs" /\ f.is_struct

ParseFail == [ok |-> FALSE, pos |-> 0, env |-> << >>]

\* the count a list field must have: its declared count, or the value of
\* the dependee generated earlier in the message (no element for a
\* negative value); -1 when the dependee was not generated
required_count(f, env) ==
    IF has_type_dependency(f)
    THEN IF Lower(f.dependency) \in DOMAIN env
         THEN Max(env[Lower(f.dependency)], 0) ELSE -1
    ELSE IF f.is_list THEN f.list_count
    ELSE 1

value_ok(scope, f, gv, env) ==
    /\ gv.field = f.name
    /\ gv.inner = ""
    /\ in_scope(scope, f) =>
          /\ Len(gv.value) = required_count(f, env)
          /\ gv.is_list = f.is_list
          /\ scope # "dependent" =>
                \A i \in DOMAIN gv.value : element_ok(f, i, gv.value[i])

\* the name of the first value a repetition of the struct starts with
RECURSIVE first_leaf(_)
first_leaf(sname) ==
    LET m == struct_list[sname][1]
    IN  IF m.is_struct THEN first_leaf(m.struct_ref) ELSE m.name

RECURSIVE parse_fields(_, _, _, _, _)
RECURSIVE parse_struct(_, _, _, _, _)
RECURSIVE parse_repetitions(_, _, _, _)

\* fields k.. of the list against vals from st.pos on
parse_fields(scope, fields, k, vals, st) ==
    IF ~st.ok \/ k > Len(fields) THEN st
    ELSE
    LET f == fields[k]
    IN  IF f.is_struct
        THEN IF f.is_list /\ ~in_scope(scope, f)
             THEN parse_fields(scope, fields, k + 1, vals,
                      parse_repetitions(scope, f.struct_ref, vals, st))
             ELSE IF required_count(f, st.env) < 0 THEN ParseFail
             ELSE parse_fields(scope, fields, k + 1, vals,
                      parse_struct(scope, f.struct_ref,
                                   required_count(f, st.env), vals, st))
        ELSE IF st.pos > Len(vals) THEN ParseFail
        ELSE IF ~value_ok(scope, f, vals[st.pos], st.env) THEN ParseFail
        ELSE parse_fields(scope, fields, k + 1, vals,
                 [ok |-> TRUE, pos |-> st.pos + 1,
                  env |-> IF f.dependee # NoName
                          THEN (Lower(f.name) :> vals[st.pos].value[1])
                               @@ st.env
                          ELSE st.env])

\* n repetitions of the members of the struct
parse_struct(scope, sname, n, vals, st) ==
    IF ~st.ok \/ n = 0 THEN st
    ELSE parse_struct(scope, sname, n - 1, vals,
                      parse_fields(scope, struct_list[sname], 1, vals, st))

\* as many repetitions of the struct as the list holds
parse_repetitions(scope, sname, vals, st) ==
    IF st.ok /\ st.pos <= Len(vals) /\ vals[st.pos].field = first_leaf(sname)
    THEN parse_repetitions(scope, sname, vals,
             parse_fields(scope, struct_list[sname], 1, vals, st))
    ELSE st

Parses(scope, msg_type, vals) ==
    LET st == parse_fields(scope, msg_type.fields, 1, vals,
                           [ok |-> TRUE, pos |-> 1, env |-> << >>])
    IN  st.ok /\ st.pos = Len(vals) + 1

\* every constraint of the message type holds of the list
Conforms(msg_type, vals) == Parses("all", msg_type, vals)

\* every list dependency of the message type names a dependee that the
\* message generates before it
RECURSIVE flat_fields(_)
flat_fields(fields) ==
    IF fields = << >> THEN << >>
    ELSE (IF Head(fields).is_struct
          THEN << Head(fields) >>
               \o flat_fields(struct_list[Head(fields).struct_ref])
          ELSE << Head(fields) >>) \o flat_fields(Tail(fields))

DependenciesResolved(msg_type) ==
    LET fl == flat_fields(msg_type.fields)
    IN  \A i \in DOMAIN fl :
            has_type_dependency(fl[i]) =>
                \E j \in 1..(i - 1) :
                    /\ fl[j].dependee # NoName
                    /\ Lower(fl[j].dependee) = Lower(fl[i].dependency)

Returned == last.msg # 0 /\ last.raised = ""

NonValid(vals) == { i \in DOMAIN vals : vals[i].value_type # VALID_VALUE }

-----------------------------------------------------------------------------
\* C1: the verdict fuzz_msg_type returns matches the content: is_valid is
\* true exactly when the generated value list satisfies every constraint of
\* the message type (value domains, type bounds, list and repetition counts)
C1_VerdictMatchesContent ==
    Returned =>
        (last.is_valid <=> Conforms(message_types[last.msg], last.vals))

\* an invalid-mode message of a message type with an invalidatable field
InvalidProduced == Returned /\ ~last.valid /\ ~last.is_valid

\* C2 as stated: in an invalid-mode message of a message type with an
\* invalidatable top-level field, exactly one generated value carries a
\* classification other than valid
C2_ExactlyOneNonValid ==
    InvalidProduced => Cardinality(NonValid(last.vals)) = 1

\* C2, amended: at most one generated value carries a classification other
\* than valid; there is one exactly when invalid_info names a field with a
\* non-valid classification, and then it is a value of that field carrying
\* that classification (a corrupted list of structs, and a ValueSingle whose
\* resampling drew the literal every time, leave every value valid)
C2_AtMostOneNonValid ==
    InvalidProduced =>
        /\ Cardinality(NonValid(last.vals)) <= 1
        /\ (NonValid(last.vals) # {}) <=>
              /\ last.invalid_info.form = "text"
              /\ last.invalid_info.value_type # VALID_VALUE
        /\ \A i \in NonValid(last.vals) :
              /\ last.vals[i].field = last.invalid_info.field
              /\ last.vals[i].value_type = last.invalid_info.value_type

\* an invalid-mode message of three values, one of them non-valid
C2_Witness ==
    /\ InvalidProduced
    /\ Cardinality(NonValid(last.vals)) = 1
    /\ Len(last.vals) >= 3

\* C3: invalid mode requested for a message type none of whose top-level
\* fields can generate an invalid instance (its list dependencies resolved
\* inside the message): the call raises nothing, returns is_valid = true
\* and every value is valid
C3_DegradesToValid ==
    [][ ( /\ calls' = calls + 1
          /\ ~last'.valid
          /\ DependenciesResolved(message_types[last'.msg])
          /\ \A i \in DOMAIN message_types[last'.msg].fields :
                ~FieldDef_can_generate_invalid_instance(
                     message_types[last'.msg].fields[i], dtype_is_list) )
        => ( /\ last'.raised = ""
             /\ last'.is_valid
             /\ NonValid(last'.vals) = {}
             /\ last'.invalid_info = NoInfo
             /\ Conforms(message_types[last'.msg], last'.vals) ) ]_vars

\* a degraded call: invalid mode requested, a valid message returned
C3_Witness ==
    /\ Returned
    /\ ~last.valid
    /\ last.is_valid
    /\ last.corrupted_field_index = -1
    /\ \A i \in DOMAIN message_types[last.msg].fields :
          message_types[last.msg].fields[i].strict
    /\ Len(last.vals) = 2

\* C4: no strict field can generate an invalid instance, and in every
\* message the values generated for the strict fields and struct members
\* (count and content) are valid for them
C4_StrictNeverCorrupted ==
    /\ \A f \in AllFields :
          f.strict => ~FieldDef_can_generate_invalid_instance(f, dtype_is_list)
    /\ Returned =>
          Parses("strict", message_types[last.msg], last.vals)

\* the dependees generated by the call are in the table under the
\* lowercase of their names, with the value generated last
PublishedUnderLowercase ==
    \A i \in DOMAIN last.vals :
        LET f == FieldNamed(last.vals[i].field)
        IN  ( /\ f.dependee # NoName
              /\ \A j \in (i + 1)..Len(last.vals) :
                    last.vals[j].field # f.name )
            => /\ Lower(f.name) \in DOMAIN dependency_values
               /\ dependency_values[Lower(f.name)].value = last.vals[i].value
               /\ dependency_call[Lower(f.name)] = calls

\* the lookups of valid generation that read a value of this message
ValidLookups ==
    { k \in DOMAIN last.ev :
        /\ last.ev[k].op = "lookup"
        /\ ~last.ev[k].inv
        /\ last.ev[k].call = calls }

\* C5 as stated: the dependee's value is in the table under its lowercase
\* name, and a list that depends on it is generated, in valid generation,
\* with exactly that many elements or repetitions
C5_ExactlyThatMany ==
    Returned =>
        /\ PublishedUnderLowercase
        /\ \A k \in ValidLookups : last.ev[k].n = last.ev[k].val[1]

\* C5, amended: the dependee's value v is in the table under its lowercase
\* name, and a list that depends on it is generated, in valid generation,
\* with max(v, 0) elements or repetitions: none when v is negative
C5_ThatManyOrNone ==
    Returned =>
        /\ PublishedUnderLowercase
        /\ \A k \in ValidLookups :
              last.ev[k].n = Max(last.ev[k].val[1], 0)
        /\ (last.is_valid /\ DependenciesResolved(message_types[last.msg]))
              => Parses("dependent", message_types[last.msg], last.vals)

\* a list of structs repeated as many times as the dependee generated
\* before it says, and a list emptied by a negative dependee
C5_Witness ==
    /\ Returned
    /\ last.valid
    /\ \E k \in ValidLookups :
          /\ last.ev[k].n = 1
          /\ FieldNamed(last.ev[k].field).is_struct
          /\ Len(last.vals) = 3

\* C6: a list-length lookup made while generating a message never reads a
\* value published while generating an earlier message
C6_MessagesIsolated ==
    \A k \in DOMAIN last.ev :
        last.ev[k].op = "lookup" => last.ev[k].call = calls

-----------------------------------------------------------------------------
\* C7: the value DType.generate_valid_value returns for a native integer
\* DType of width w, and every element of the list it returns for a list
\* type, is in [0, 2^w - 1] when the type is unsigned and in
\* [-2^(w-1), 2^(w-1) - 1] when it is signed
C7_ValidValueInBounds ==
    dt.done =>
        /\ dt.raised = ""
        /\ dt.gv.value_type = VALID_VALUE
        /\ Len(dt.gv.value) = IF dt.dtype.is_list
                              THEN dt.dtype.list_count ELSE 1
        /\ \A i \in DOMAIN dt.gv.value :
              IF dt.dtype.signed
              THEN /\ -(2^(dt.dtype.size - 1)) <= dt.gv.value[i]
                   /\ dt.gv.value[i] <= 2^(dt.dtype.size - 1) - 1
              ELSE /\ 0 <= dt.gv.value[i]
                   /\ dt.gv.value[i] <= 2^dt.dtype.size - 1

\* a signed list whose elements are the two bounds of the type
C7_Witness ==
    /\ dt.done
    /\ dt.dtype.is_list
    /\ dt.dtype.signed
    /\ dt.dtype.size >= 2
    /\ Len(dt.gv.value) = 2
    /\ dt.gv.value[1] = -(2^(dt.dtype.size - 1))
    /\ dt.gv.value[2] = 2^(dt.dtype.size - 1) - 1

\* C8: generate_valid_value of an integer field constrained to Range (a,b)
\* returns an integer v with a <= v <= b - 1, classified valid
C8_ValidValueBelowUpper ==
    rng.op = "valid" =>
        /\ rng.raised = ""
        /\ rng.gv.value_type = VALID_VALUE
        /\ Len(rng.gv.value) = 1
        /\ rng.field.lo <= rng.gv.value[1]
        /\ rng.gv.value[1] <= rng.field.hi - 1

\* the largest value a Range of more than two numbers yields
C8_Witness ==
    /\ rng.op = "valid"
    /\ rng.field.hi - rng.field.lo >= 2
    /\ rng.gv.value[1] = rng.field.hi - 1

\* C9: for Range (a,b) that does not cover the type's bounds [tmin,tmax],
\* generate_invalid_value returns b+1 classified above-bounds or a-1
\* classified below-bounds: b+1 when a = tmin, a-1 when b = tmax (and
\* a # tmin), either otherwise; the value is outside [a,b] and inside
\* [tmin,tmax]
C9_InvalidValueStepsPast ==
    LET a == rng.field.lo
        b == rng.field.hi
        tmin == IF rng.field.signed THEN -(2^(rng.field.size - 1)) ELSE 0
        tmax == IF rng.field.signed THEN 2^(rng.field.size - 1) - 1
                ELSE 2^rng.field.size - 1
        v == rng.gv.value[1]
    IN  (rng.op = "invalid" /\ ~(a = tmin /\ b = tmax)) =>
            /\ rng.raised = ""
            /\ Len(rng.gv.value) = 1
            /\ \/ v = b + 1 /\ rng.gv.value_type = GREATER_THAN_BOUNDS
               \/ v = a - 1 /\ rng.gv.value_type = LESS_THAN_BOUNDS
            /\ a = tmin => v = b + 1
            /\ (a # tmin /\ b = tmax) => v = a - 1
            /\ ~(a <= v /\ v <= b)
            /\ tmin <= v /\ v <= tmax

\* a Range that touches neither bound of its type, stepped past below
C9_Witness ==
    /\ rng.op = "invalid"
    /\ get_bounds(rng.field.size, rng.field.signed)[1] < rng.field.lo
    /\ rng.field.hi < get_bounds(rng.field.size, rng.field.signed)[2]
    /\ rng.gv.value_type = LESS_THAN_BOUNDS
    /\ rng.gv.value[1] = rng.field.lo - 1

\* C10: combine_values run again on the list it returned, in whatever
\* order the list is, returns the same set of (min, max) pairs
C10_CombineIdempotent ==
    cmb.runs = 2 =>
        /\ ~cmb.second.raised
        /\ cmb.second.ranges = cmb.first.ranges

\* a second run on a list that the first run shortened to two ranges
C10_Witness ==
    /\ cmb.runs = 2
    /\ Len(cmb.val_list) = 3
    /\ Cardinality(cmb.first.ranges) = 2
    /\ cmb.second.ranges = cmb.first.ranges

\* the points of the intervals of a collection of ranges
points(ranges) == UNION { r.lo .. r.hi : r \in ranges }

\* C17: combine_values completes without error on every list of ranges,
\* no two of the ranges it returns share a point, and the union of the
\* returned intervals is the union of the input intervals.
C17_CanonicalDisjointCover ==
    cmb.runs >= 1 =>
        /\ ~cmb.first.raised
        /\ \A a, b \in cmb.first.ranges :
              a # b => (a.lo .. a.hi) \cap (b.lo .. b.hi) = {}
        /\ points(cmb.first.ranges)
           = points({ cmb.val_list[k] : k \in DOMAIN cmb.val_list })

-----------------------------------------------------------------------------
(* The serializer. *)

\* int(s[2:], 16) of an octet string, as eight binary digits
hex_digit_value(ch) == CHOOSE d \in 0..15 : HexDigits[d + 1] = ch

octet_of_hex(s) ==
    low_bits(int_bits(16 * hex_digit_value(s[3]) + hex_digit_value(s[4])), 8)

\* the binary digits a list of octet strings holds, first octet first
octets_bits(octets) ==
    join_octets([j \in DOMAIN octets |-> octet_of_hex(octets[j])])

\* the sum of the widths of the values before the k-th
RECURSIVE width_before(_, _)
width_before(vals, k) ==
    IF k = 1 THEN 0
    ELSE width_before(vals, k - 1) + vals[k - 1].dtype.size

\* the digits regrouped by field width
regroup(bits, vals) ==
    [k \in DOMAIN vals |->
        SubSeq(bits, width_before(vals, k) + 1,
               width_before(vals, k) + vals[k].dtype.size)]

\* a sequence of unsigned big-endian integers of width 8, 16, 32 or 64
RoundTripInput ==
    \A k \in DOMAIN ser.vals :
        /\ ~ser.vals[k].is_list
        /\ ser.vals[k].dtype.is_big_endian
        /\ ser.vals[k].dtype.size \in {8, 16, 32, 64}

\* C11: for a sequence of unsigned big-endian integers of width 8, 16, 32
\* or 64 serialize returns the sum of the widths as size, and the octets
\* deserialize returns, regrouped by field width, are the original values
\* in the original order.
C11_SerializeRoundTrip ==
    (RoundTripInput /\ ser.step # "") =>
        /\ ~ser.raised
        /\ ser.size = width_before(ser.vals, Len(ser.vals) + 1)
        /\ ser.step = "deserialized" =>
              /\ 8 * Len(ser.octets) = ser.size
              /\ regroup(octets_bits(ser.octets), ser.vals)
                 = [k \in DOMAIN ser.vals |-> ser.vals[k].value[1]]

C11_Witness ==
    /\ RoundTripInput
    /\ ser.step = "deserialized"
    /\ Len(ser.vals) = 2
    /\ ser.vals[1].dtype.size = 16
    /\ ser.vals[2].dtype.size = 32
    /\ ser.vals[1].value[1] = counting_octets(16)
    /\ ser.vals[2].value[1] = counting_octets(32)
    /\ Len(ser.octets) = 6

\* an element in the byte order its DType declares
declared_order(dtype, v) ==
    IF dtype.is_big_endian THEN v ELSE join_octets(reverse(octets_of(v)))

RECURSIVE elements_in_order(_, _, _)
elements_in_order(dtype, value, k) ==
    IF k > Len(value) THEN << >>
    ELSE declared_order(dtype, value[k])
         \o elements_in_order(dtype, value, k + 1)

\* C12: a list value of a whole-octet width is serialized as its elements
\* in declared order, each at the element width in the declared byte order.
C12_ListElementsInDeclaredOrder ==
    (/\ ser.step # ""
     /\ Len(ser.vals) = 1
     /\ ser.vals[1].is_list
     /\ ser.vals[1].dtype.size % 8 = 0) =>
        /\ ~ser.raised
        /\ ser.size = ser.vals[1].dtype.size * Len(ser.vals[1].value)
        /\ low_bits(ser.serial, ser.size)
           = elements_in_order(ser.vals[1].dtype, ser.vals[1].value, 1)

\* C13: the returned integer is the packed digits shifted left by
\* (8 - size mod 8) mod 8, so that the padded length is a multiple of 8.
C13_PaddedToOctet ==
    (ser.step # "" /\ ~ser.raised) =>
        strip_zeros(ser.serial)
        = strip_zeros(lshift(serialize_loop([serial |-> << >>, size |-> 0,
                                             raised |-> FALSE],
                                            ser.vals, 1).serial,
                             (8 - (ser.size % 8)) % 8))

-----------------------------------------------------------------------------
(* The testcase generator. *)

\* the basename of message i (0-based): four digits, an underscore and
\* the name of the message type
basename(i, msg_type) ==
    << Digits[((i \div 1000) % 10) + 1], Digits[((i \div 100) % 10) + 1],
       Digits[((i \div 10) % 10) + 1], Digits[(i % 10) + 1], "_" >>
    \o message_types[msg_type].name

Classifications ==
    { VALID_VALUE, INVALID_VALUE, GREATER_THAN_BOUNDS, LESS_THAN_BOUNDS,
      LOW_LIST_LENGTH, HIGH_LIST_LENGTH }

\* C14: every line of results.txt is `<basename> - valid` for a message
\* whose verdict is valid, or `<basename> - invalid - <field> -
\* <classification>` for a message whose verdict is invalid.
C14_ResultsLineShapes ==
    tc.pc = "done" =>
        \A k \in DOMAIN tc.results :
            IF tc.messages[k].valid
            THEN tc.results[k]
                 = basename(k - 1, tc.messages[k].msg_type)
                   \o << " - ", "valid", "\n" >>
            ELSE \E f \in FieldNames, c \in Classifications :
                    tc.results[k]
                    = basename(k - 1, tc.messages[k].msg_type)
                      \o << " - ", "invalid", " - " >> \o f
                      \o << " - ", c, "\n" >>

\* the binary files among the paths the call created
binary_files ==
    SelectSeq(tc.created, LAMBDA path : path[Len(path)] = ".bin")

\* C15: a generate_testcase call that completes emits exactly msg_count
\* messages, or one message per message type in specification order when
\* one_per is set; message i is written to `<basename of i>.bin` and line i
\* of results.txt starts with that basename.
C15_BatchFilesAndLines ==
    tc.pc = "done" =>
        /\ tc.one_per =>
              [k \in DOMAIN tc.messages |-> tc.messages[k].msg_type]
              = tc.msg_types
        /\ ~tc.one_per => Len(tc.messages) = tc.msg_count
        /\ Len(binary_files) = Len(tc.messages)
        /\ Len(tc.results) = Len(tc.messages)
        /\ \A k \in DOMAIN tc.messages :
              /\ binary_files[k]
                 = basename(k - 1, tc.messages[k].msg_type) \o << ".bin" >>
              /\ SubSeq(tc.results[k], 1,
                        Len(basename(k - 1, tc.messages[k].msg_type)))
                 = basename(k - 1, tc.messages[k].msg_type)

C15_Witness ==
    /\ tc.pc = "done"
    /\ ~tc.one_per
    /\ tc.msg_count = 2
    /\ Len(tc.msg_types) = 2
    /\ tc.messages[1].msg_type # tc.messages[2].msg_type
    /\ binary_files[2][4] = "1"

\* C16: nothing is created before every message of the batch is generated
\* in memory, and a call whose generation raised has created nothing.
C16_WritesAfterGeneration ==
    /\ tc.created # << >> =>
          /\ Len(tc.messages) = Len(tc.list_to_generate)
          /\ tc.pc = "done"
    /\ tc.pc = "aborted" =>
          /\ tc.created = << >>
          /\ tc.results = << >>
    /\ tc.pc \in {"idle", "generating"} =>
          /\ tc.created = << >>
          /\ tc.results = << >>

C16_Witness ==
    /\ tc.pc = "aborted"
    /\ Len(tc.list_to_generate) = 2
    /\ Len(tc.messages) = 1
    /\ ~tc.top_dir

-----------------------------------------------------------------------------
(* Choices. *)

\* the alternatives of the Choice
alternatives == { vch.contents[i].lo : i \in DOMAIN vch.contents }

\* the values of the type of the Choice's field
domain == get_bounds(vch.size, vch.signed)[1]
          .. get_bounds(vch.size, vch.signed)[2]

\* C18: for a Choice of integer Singles can_generate_invalid_instance is
\* false exactly when the number of distinct alternatives is the number of
\* values of the type, and true whenever a value of the type is not an
\* alternative.
C18_CanInvalidateUnlessFull ==
    (vch.op = "can" /\ vch.contents[1].t = "single") =>
        /\ ~vch.can <=> Cardinality(alternatives) = Cardinality(domain)
        /\ domain \ alternatives # {} => vch.can

\* C19: for a Choice of two or more merged integer Ranges
\* generate_invalid_value returns a value strictly between two consecutive
\* alternatives.
C19_InvalidValueInGap ==
    (vch.op = "invalid" /\ vch.contents[1].t = "range"
     /\ Len(vch.contents) >= 2) =>
        /\ vch.raised = ""
        /\ \E k \in 1..(Len(vch.contents) - 1) :
              /\ vch.contents[k].hi < vch.gv.value[1]
              /\ vch.gv.value[1] < vch.contents[k + 1].lo

-----------------------------------------------------------------------------
(* Singles. *)

\* C20: ValueSingle.generate_invalid_value never raises, takes one sample
\* and at most 10 more while the sample is the literal, and classifies the
\* value it returns as generic-invalid exactly when it differs from the
\* literal, as valid when every sample was the literal; it is one of the
\* results of the call as the message generator makes it.
C20_SingleResamplesThenClassifies ==
    /\ vsg.raised = ""
    /\ vsg.pc # "raised"
    /\ vsg.cnt <= resample_limit
    /\ vsg.samples <= resample_limit + 1
    /\ vsg.pc = "loop" => vsg.samples = vsg.cnt + 1
    /\ vsg.pc = "returned" =>
          /\ vsg.gv.value = vsg.invalid_data
          /\ vsg.gv.value_type = INVALID_VALUE
             <=> vsg.gv.value # << vsg.value >>
          /\ ~vsg.differed => vsg.gv.value_type = VALID_VALUE
          /\ vsg.gv.value_type \in {INVALID_VALUE, VALID_VALUE}
          /\ vsg.gv \in { r.gv : r \in ValueSingle_generate_invalid_value(
                                     SingleField(vsg).value, SingleField(vsg),
                                     FieldContext(SingleField(vsg))) }

\* the resample budget is spent on samples that all were the literal
C20_Witness ==
    /\ vsg.pc = "returned"
    /\ vsg.cnt = resample_limit
    /\ ~vsg.differed
    /\ vsg.gv.value_type = VALID_VALUE
    /\ vsg.size = 2

-----------------------------------------------------------------------------
(* Lists. *)

\* the first k numbers of the generated list are valid for the first k
\* declared elements
valid_prefix(k) ==
    /\ k <= Len(vls.gv.value)
    /\ \A i \in 1..k :
          in_domain(vls.field.value.items[i], vls.gv.value[i])

\* C21: ValueList.generate_invalid_value on a List of n elements returns a
\* list: the n valid elements and one more valid element of the type,
\* classified list-too-long, or the first n - 1 valid elements, classified
\* list-too-short, the latter only when n > 1.
C21_ListLengthFault ==
    (vls.op = "invalid" /\ vls.field.value # NoValue) =>
        /\ vls.raised = ""
        /\ vls.gv.is_list
        /\ \/ /\ vls.gv.value_type = HIGH_LIST_LENGTH
              /\ Len(vls.gv.value) = vls.n + 1
              /\ valid_prefix(vls.n)
              /\ in_type_bounds(vls.field, vls.gv.value[vls.n + 1])
           \/ /\ vls.gv.value_type = LOW_LIST_LENGTH
              /\ vls.n > 1
              /\ Len(vls.gv.value) = vls.n - 1
              /\ valid_prefix(vls.n - 1)

\* C22: DType.generate_invalid_value on a list field without a value whose
\* required length is n returns n + 1 numbers of the type classified
\* HIGH_LIST_LENGTH, or n - 1 numbers of the type classified
\* LOW_LIST_LENGTH, the latter only when n > 1.
C22_DTypeLengthFault ==
    (vls.op = "invalid" /\ vls.field.value = NoValue) =>
        /\ vls.raised = ""
        /\ vls.gv.is_list
        /\ \A i \in DOMAIN vls.gv.value :
              in_type_bounds(vls.field, vls.gv.value[i])
        /\ \/ /\ vls.gv.value_type = HIGH_LIST_LENGTH
              /\ Len(vls.gv.value) = vls.n + 1
           \/ /\ vls.gv.value_type = LOW_LIST_LENGTH
              /\ vls.n > 1
              /\ Len(vls.gv.value) = vls.n - 1

-----------------------------------------------------------------------------
(* Structs. *)

\* the number of values the fields flatten to, every struct repeated as
\* often as its fixed count says
RECURSIVE flat_len(_)
flat_len(fields) ==
    IF fields = << >> THEN 0
    ELSE (IF Head(fields).is_struct
          THEN (IF Head(fields).is_list THEN Head(fields).list_count ELSE 1)
               * flat_len(struct_list[Head(fields).struct_ref])
          ELSE 1) + flat_len(Tail(fields))

FixedCounts(msg_type) ==
    \A i \in DOMAIN flat_fields(msg_type.fields) :
        flat_fields(msg_type.fields)[i].is_struct
        => ~has_type_dependency(flat_fields(msg_type.fields)[i])

\* C23: a message whose corruption is a struct list with one repetition too
\* many holds, besides the values of the valid message, the values of one
\* more instance of the struct of one of its list-typed struct fields or
\* members.
C23_OneMoreRepetition ==
    (/\ Returned
     /\ ~last.valid
     /\ last.invalid_info = EnumInfo(HIGH_LIST_LENGTH)
     /\ FixedCounts(message_types[last.msg])) =>
        \E i \in DOMAIN flat_fields(message_types[last.msg].fields) :
            /\ flat_fields(message_types[last.msg].fields)[i].is_struct
            /\ flat_fields(message_types[last.msg].fields)[i].is_list
            /\ Len(last.vals)
               = flat_len(message_types[last.msg].fields)
                 + flat_len(struct_list[
                       flat_fields(message_types[last.msg].fields)[i]
                           .struct_ref])

\* C24: in an invalid-mode message whose corruption point is a scalar field
\* or member, every struct and every list-typed struct, at any depth, is
\* repeated as often as its count says, its members in declaration order.
C24_OthersAsValid ==
    (Returned /\ ~last.valid /\ last.invalid_info.form = "text") =>
        Parses("structs", message_types[last.msg], last.vals)

-----------------------------------------------------------------------------
(* Signed values in the buffer. *)

\* the numbers of the values, scalars and list elements, in buffer order
RECURSIVE numbers_of(_)
numbers_of(vals) ==
    IF vals = << >> THEN << >>
    ELSE [i \in DOMAIN Head(vals).value |->
            [v |-> Head(vals).value[i], w |-> Head(vals).dtype.size]]
         \o numbers_of(Tail(vals))

\* the w-bit patterns v mod 2^w one after the other
RECURSIVE patterns(_, _, _)
patterns(numbers, k, acc) ==
    IF k > Len(numbers) THEN acc
    ELSE patterns(numbers, k + 1,
                  acc * (2^numbers[k].w) + (numbers[k].v % (2^numbers[k].w)))

\* C25: the buffer of signed values of at most 8 bits is the sequence of
\* their two's complement patterns, each at its own position, before the
\* padding that ends the buffer.
C25_TwosComplementInPlace ==
    (/\ ser.step = "serialized"
     /\ \A i \in DOMAIN ser.vals :
           ser.vals[i].dtype.signed /\ ser.vals[i].dtype.size <= 8) =>
        /\ ~ser.raised
        /\ ser.serial
           = patterns(numbers_of(ser.vals), 1, 0) * (2^(ser.size % 8))

-----------------------------------------------------------------------------
(* The manifest line of a message that was asked invalid and came valid. *)

\* C26: in a batch asked invalid, the manifest line of a message that
\* fuzz_msg_type generated valid, for want of a field to corrupt, differs
\* from the line a batch asked valid writes for that message.
C26_DegradedEntryNoted ==
    tc.pc = "done" =>
        \A k \in DOMAIN tc.results :
            (~tc.valid /\ tc.messages[k].valid) =>
                tc.results[k]
                # basename(k - 1, tc.messages[k].msg_type)
                  \o << " - ", "valid", "\n" >>

-----------------------------------------------------------------------------
(* The construction of a FieldDef. *)

\* the numbers written in a value
RECURSIVE literals(_)
literals(val) ==
    IF val.t = "single" THEN {val.lo}
    ELSE IF val.t = "range" THEN {val.lo, val.hi}
    ELSE UNION { literals(val.items[i]) : i \in DOMAIN val.items }

\* the Lists written in a value
lists_in(val) ==
    IF val.t = "list" THEN {val}
    ELSE { val.items[i] : i \in { j \in DOMAIN val.items :
                                     val.items[j].t = "list" } }

\* the declared value does not fit the DType: a literal outside the type's
\* bounds, a shape that does not match the type's list-ness, or a List
\* longer than the fixed count the type declares
inconsistent(f) ==
    \/ \E v \in literals(f.value) : ~in_type_bounds(f, v)
    \/ /\ f.is_list
       /\ f.value.t # "list"
       /\ ~(/\ f.value.t = "choice"
            /\ \A i \in DOMAIN f.value.items : f.value.items[i].t = "list")
    \/ ~f.is_list /\ lists_in(f.value) # {}
    \/ /\ f.is_list
       /\ ~has_type_dependency(f)
       /\ \E l \in lists_in(f.value) : Len(l.items) > f.list_count

\* C27: the construction of a FieldDef with a declared value raises
\* exactly when the value does not fit the DType.
C27_FailsIffInconsistent ==
    (vfd.op = "constructed" /\ vfd.field.value # NoValue) =>
        ((vfd.raised # "") <=> inconsistent(vfd.field))

-----------------------------------------------------------------------------
(* The parsed specification across generation calls. *)

\* C28: a fuzz_msg_type call that returns normally leaves DType.is_list of
\* every field of the specification as the call found it, and so as the
\* parser set it.
C28_SpecificationUnchanged ==
    [][(last'.msg # 0 /\ last'.raised = "") =>
           /\ dtype_is_list' = dtype_is_list
           /\ dtype_is_list' = [n \in FieldNames |-> FieldNamed(n).is_list]]_vars

-----------------------------------------------------------------------------
(* The guard of an invalidation, and the value a Choice of Singles gives. *)

\* C29: on a field that passed FieldDef.check_valid, when
\* can_generate_invalid_instance of the Choice is true,
\* generate_invalid_value returns a value and raises nothing.
C29_CanGuardsInvalid ==
    (/\ vch.op = "invalid"
     /\ check_valid(ChoiceField(vch)) = ""
     /\ Value_can_generate_invalid_instance(ChoiceField(vch).value,
                                            ChoiceField(vch))) =>
        vch.raised = ""

\* C30: for a Choice of integer Singles that leaves a value of the type
\* free, generate_invalid_value returns an integer of the type that is
\* none of the alternatives.
C30_NotInSetWithinBounds ==
    (/\ vch.op = "invalid"
     /\ vch.contents[1].t = "single"
     /\ domain \ alternatives # {}) =>
        /\ vch.raised = ""
        /\ vch.gv.value[1] \in domain \ alternatives

====
